---- MODULE Spec2Model ----
(***************************************************************************)
(* Wyckoff / SMC trading system: the confluence engine, the backtest loop, *)
(* the performance calculator, the learning engine and the analytics       *)
(* tool's trade recording, modelled as state machines.                     *)
(*                                                                         *)
(* Numbers.  Python floats are modelled as exact rationals [n, d] in       *)
(* lowest terms with d > 0; float('inf') is [n |-> 1, d |-> 0].  A value   *)
(* that needs a square root is kept as an unevaluated term [sym, ...].     *)
(* None is the empty tuple <<>> and a present optional value v is <<v>>.   *)
(* An exception is a record [raised |-> "<exception type>"].               *)
(***************************************************************************)
EXTENDS Integers, Sequences, FiniteSets, TLC

VARIABLES
    trades,                      \* PerformanceCalculator: the trade list handed in
    metrics,                     \* PerformanceCalculator: the returned bundle (<<>> before the call)
    confluence_weights,          \* LearningEngine.confluence_weights
    optimization_history,        \* LearningEngine.optimization_history
    pattern_reliability_scores,  \* LearningEngine.pattern_reliability_scores
    le_call,                     \* the last analyze_confluence_effectiveness call and what it returned
    trades_database,             \* PerformanceAnalyticsTool._trades_database
    last_add,                    \* what the last _add_trade_result did (history variable)
    ohlc_data,                   \* the bar series handed to the engine / backtest
    technical_indicators,        \* the indicator mapping handed to analyze_confluence
    signal,                      \* analyze_confluence's outcome (<<>> before the call)
    bt,                          \* _execute_backtest's locals (loop position, trades, balance)
    report,                      \* _run_comprehensive_backtest / _analyze_parameter_stability in progress
    call                         \* the last call of a stateless function and what it returned

vars == <<trades, metrics, confluence_weights, optimization_history,
          pattern_reliability_scores, le_call, trades_database, last_add,
          ohlc_data, technical_indicators, signal, bt, report, call>>

metricsVars  == <<trades, metrics>>
learningVars == <<confluence_weights, optimization_history,
                  pattern_reliability_scores, le_call>>
toolVars     == <<trades_database, last_add>>
engineVars   == <<ohlc_data, technical_indicators, signal>>

----------------------------------------------------------------------------
(* Optional values and exact rationals *)

None == <<>>
Some(v) == <<v>>
IsNone(x) == x = <<>>
Val(x) == x[1]

Abs(x) == IF x < 0 THEN -x ELSE x

RECURSIVE GCD(_, _)
GCD(a, b) == IF b = 0 THEN a ELSE GCD(b, a % b)

\* n/d in lowest terms, d > 0 (d # 0 is the caller's obligation)
Rat(n, d) ==
    LET g == GCD(Abs(n), Abs(d))
        s == IF d < 0 THEN -1 ELSE 1
    IN  [n |-> (s * n) \div g, d |-> (s * d) \div g]

R(i) == [n |-> i, d |-> 1]
Zero == [n |-> 0, d |-> 1]
Inf == [n |-> 1, d |-> 0]

\* sums and comparisons over the least common denominator
RAdd(a, b) ==
    LET g == GCD(a.d, b.d)
    IN  Rat(a.n * (b.d \div g) + b.n * (a.d \div g), (a.d \div g) * b.d)
RSub(a, b) ==
    LET g == GCD(a.d, b.d)
    IN  Rat(a.n * (b.d \div g) - b.n * (a.d \div g), (a.d \div g) * b.d)
\* products and quotients, common factors cancelled crosswise first
RMul(a, b) ==
    LET g == GCD(Abs(a.n), b.d)
        h == GCD(Abs(b.n), a.d)
    IN  Rat((a.n \div g) * (b.n \div h), (a.d \div h) * (b.d \div g))
RDiv(a, b) == RMul(a, IF b.n < 0 THEN [n |-> -b.d, d |-> -b.n] ELSE [n |-> b.d, d |-> b.n])
RNeg(a) == [n |-> -a.n, d |-> a.d]
RAbs(a) == [n |-> Abs(a.n), d |-> a.d]
RLt(a, b) ==
    LET g == GCD(a.d, b.d)
    IN  a.n * (b.d \div g) < b.n * (a.d \div g)
RLe(a, b) ==
    LET g == GCD(a.d, b.d)
    IN  a.n * (b.d \div g) <= b.n * (a.d \div g)
RMax(a, b) == IF RLt(a, b) THEN b ELSE a
RMin(a, b) == IF RLt(b, a) THEN b ELSE a
IsZero(a) == a.n = 0 /\ a.d # 0

RECURSIVE RSum(_)
RSum(s) == IF s = <<>> THEN Zero ELSE RAdd(s[1], RSum(Tail(s)))

RECURSIVE RMaxOf(_)
RMaxOf(s) == IF Len(s) = 1 THEN s[1] ELSE RMax(s[1], RMaxOf(Tail(s)))

\* statistics.mean of a non-empty list
Mean(s) == RDiv(RSum(s), R(Len(s)))

----------------------------------------------------------------------------
(* PerformanceCalculator (performance_calculator.py) *)

Truthy(x) == ~IsNone(x) /\ ~IsZero(Val(x))
PnlPos(t) == ~IsNone(t.pnl) /\ RLt(Zero, Val(t.pnl))
PnlNeg(t) == ~IsNone(t.pnl) /\ RLt(Val(t.pnl), Zero)
\* the list comprehensions over trades: [t.pnl for t in ts], [abs(t.pnl) for ...], ...
Pnls(ts) == [i \in 1..Len(ts) |-> Val(ts[i].pnl)]
AbsPnls(ts) == [i \in 1..Len(ts) |-> RAbs(Val(ts[i].pnl))]
PnlPercents(ts) == [i \in 1..Len(ts) |-> Val(ts[i].pnl_percent)]
HoldTimes(ts) == [i \in 1..Len(ts) |-> Val(ts[i].hold_time_hours)]
RiskRewards(ts) == [i \in 1..Len(ts) |-> ts[i].risk_reward_ratio]
ConfluenceScores(ts) == [i \in 1..Len(ts) |-> ts[i].confluence_score]

\* the literal PerformanceMetrics(...) of the two early returns
ZeroMetrics(total) ==
    [total_trades |-> total, winning_trades |-> 0, losing_trades |-> 0,
     win_rate |-> Zero, profit_factor |-> Zero, total_pnl |-> Zero,
     total_pnl_percent |-> Zero, avg_win |-> Zero, avg_loss |-> Zero,
     largest_win |-> Zero, largest_loss |-> Zero,
     max_consecutive_wins |-> 0, max_consecutive_losses |-> 0,
     max_drawdown |-> Zero, max_drawdown_percent |-> Zero,
     sharpe_ratio |-> Zero, sortino_ratio |-> Zero, calmar_ratio |-> Zero,
     avg_trade_duration_hours |-> Zero, avg_risk_reward |-> Zero,
     expectancy |-> Zero, recovery_factor |-> Zero,
     profit_factor_by_asset |-> <<>>, performance_by_timeframe |-> <<>>]

RECURSIVE MaxConsecutiveLoop(_, _, _, _)
MaxConsecutiveLoop(ts, winning, current_consecutive, max_consecutive) ==
    IF ts = <<>> THEN max_consecutive
    ELSE LET trade == ts[1]
             hit == /\ ~IsNone(trade.pnl)
                    /\ \/ winning /\ RLt(Zero, Val(trade.pnl))
                       \/ ~winning /\ RLe(Val(trade.pnl), Zero)
             cur == IF hit THEN current_consecutive + 1 ELSE 0
             mx == IF hit /\ cur > max_consecutive THEN cur ELSE max_consecutive
         IN  MaxConsecutiveLoop(Tail(ts), winning, cur, mx)

calculate_max_consecutive(ts, winning) == MaxConsecutiveLoop(ts, winning, 0, 0)

RECURSIVE DrawdownLoop(_, _, _, _, _)
DrawdownLoop(ts, cumulative_pnl, peak_pnl, max_dd_absolute, max_dd_percent) ==
    IF ts = <<>> THEN <<max_dd_absolute, max_dd_percent>>
    ELSE LET trade == ts[1] IN
         IF IsNone(trade.pnl)
         THEN DrawdownLoop(Tail(ts), cumulative_pnl, peak_pnl,
                           max_dd_absolute, max_dd_percent)
         ELSE LET cum == RAdd(cumulative_pnl, Val(trade.pnl))
                  peak == RMax(peak_pnl, cum)
                  drawdown == RSub(peak, cum)
                  mabs == RMax(max_dd_absolute, drawdown)
                  mpct == IF RLt(Zero, peak)
                          THEN RMax(max_dd_percent,
                                    RMul(RDiv(drawdown, peak), R(100)))
                          ELSE max_dd_percent
              IN  DrawdownLoop(Tail(ts), cum, peak, mabs, mpct)

calculate_drawdown(ts) ==
    IF ts = <<>> THEN <<Zero, Zero>> ELSE DrawdownLoop(ts, Zero, Zero, Zero, Zero)

\* risk_free_rate / 252 with risk_free_rate = 0.02
DailyRiskFree == Rat(2, 25200)
ExcessReturns(returns) == [i \in 1..Len(returns) |-> RSub(returns[i], DailyRiskFree)]

\* statistics.stdev(xs) > 0: the sample deviation of two or more values is
\* positive exactly when they are not all equal
StdevPositive(xs) == \E i, j \in 1..Len(xs) : xs[i] # xs[j]

calculate_sharpe_ratio(returns) ==
    IF Len(returns) < 2 THEN Zero
    ELSE LET excess_returns == ExcessReturns(returns)
             mean_excess_return == Mean(excess_returns)
         IN  IF StdevPositive(excess_returns)
             THEN [sym |-> "mean/stdev*sqrt(252)", mean |-> mean_excess_return,
                   of |-> excess_returns]
             ELSE Zero

calculate_sortino_ratio(returns) ==
    IF Len(returns) < 2 THEN Zero
    ELSE LET excess_returns == ExcessReturns(returns)
             mean_excess_return == Mean(excess_returns)
             negative_returns == SelectSeq(excess_returns, LAMBDA r : RLt(r, Zero))
         IN  IF negative_returns = <<>>
             THEN (IF RLt(Zero, mean_excess_return) THEN Inf ELSE Zero)
             \* downside_deviation = sqrt(mean(r^2)) > 0 as every r < 0
             ELSE [sym |-> "mean/downside*sqrt(252)", mean |-> mean_excess_return,
                   of |-> negative_returns]

calculate_performance_by_asset(ts) ==
    LET assets == {ts[i].symbol : i \in 1..Len(ts)}
        wins(a) == RSum(Pnls(SelectSeq(ts, LAMBDA t : t.symbol = a /\ PnlPos(t))))
        losses(a) == RSum(AbsPnls(SelectSeq(ts, LAMBDA t : t.symbol = a /\ ~PnlPos(t)
                                                         /\ ~IsNone(t.pnl))))
    IN  [a \in assets |->
            IF RLt(Zero, losses(a)) THEN RDiv(wins(a), losses(a))
            ELSE IF RLt(Zero, wins(a)) THEN Inf ELSE Zero]

calculate_performance_by_timeframe(ts) ==
    LET tfs == {ts[i].timeframe : i \in 1..Len(ts)}
        tf_trades(tf) == SelectSeq(ts, LAMBDA t : t.timeframe = tf)
        total(tf) == RSum(Pnls(tf_trades(tf)))
    IN  [tf \in tfs |->
            [total_trades |-> Len(tf_trades(tf)),
             win_rate |-> RMul(Rat(Len(SelectSeq(tf_trades(tf), PnlPos)),
                                   Len(tf_trades(tf))), R(100)),
             total_pnl |-> total(tf),
             avg_pnl |-> RDiv(total(tf), R(Len(tf_trades(tf))))]]

ProfitFactor(gross_profit, gross_loss) ==
    IF RLt(Zero, gross_loss) THEN RDiv(gross_profit, gross_loss) ELSE Inf

calculate_basic_metrics(ts) ==
    IF ts = <<>> THEN ZeroMetrics(0)
    ELSE
    LET closed_trades == SelectSeq(ts, LAMBDA t : t.status = "CLOSED" /\ ~IsNone(t.pnl)) IN
    IF closed_trades = <<>> THEN ZeroMetrics(Len(ts))
    ELSE
    LET total_trades == Len(closed_trades)
        wins == Pnls(SelectSeq(closed_trades, PnlPos))
        losses == AbsPnls(SelectSeq(closed_trades, PnlNeg))
        winning_trades == Len(wins)
        losing_trades == Len(losses)
        win_rate == RMul(Rat(winning_trades, total_trades), R(100))
        total_pnl == RSum(Pnls(closed_trades))
        returns == PnlPercents(SelectSeq(closed_trades, LAMBDA t : Truthy(t.pnl_percent)))
        total_pnl_percent == RSum(returns)
        avg_win == IF wins # <<>> THEN Mean(wins) ELSE Zero
        avg_loss == IF losses # <<>> THEN Mean(losses) ELSE Zero
        gross_profit == RSum(wins)
        gross_loss == RSum(losses)
        dd == calculate_drawdown(closed_trades)
        max_drawdown == dd[1]
        max_drawdown_percent == dd[2]
        durations == HoldTimes(SelectSeq(closed_trades, LAMBDA t : Truthy(t.hold_time_hours)))
        risk_rewards == RiskRewards(SelectSeq(closed_trades, LAMBDA t : ~IsZero(t.risk_reward_ratio)))
    IN  [total_trades |-> total_trades,
         winning_trades |-> winning_trades,
         losing_trades |-> losing_trades,
         win_rate |-> win_rate,
         profit_factor |-> ProfitFactor(gross_profit, gross_loss),
         total_pnl |-> total_pnl,
         total_pnl_percent |-> total_pnl_percent,
         avg_win |-> avg_win,
         avg_loss |-> avg_loss,
         largest_win |-> IF wins # <<>> THEN RMaxOf(wins) ELSE Zero,
         largest_loss |-> IF losses # <<>> THEN RMaxOf(losses) ELSE Zero,
         max_consecutive_wins |-> calculate_max_consecutive(closed_trades, TRUE),
         max_consecutive_losses |-> calculate_max_consecutive(closed_trades, FALSE),
         max_drawdown |-> max_drawdown,
         max_drawdown_percent |-> max_drawdown_percent,
         sharpe_ratio |-> calculate_sharpe_ratio(returns),
         sortino_ratio |-> calculate_sortino_ratio(returns),
         calmar_ratio |-> IF RLt(Zero, max_drawdown_percent)
                          THEN RDiv(total_pnl_percent, max_drawdown_percent) ELSE Zero,
         avg_trade_duration_hours |-> IF durations # <<>> THEN Mean(durations) ELSE Zero,
         avg_risk_reward |-> IF risk_rewards # <<>> THEN Mean(risk_rewards) ELSE Zero,
         expectancy |-> RSub(RMul(RDiv(win_rate, R(100)), avg_win),
                             RMul(RDiv(RSub(R(100), win_rate), R(100)), avg_loss)),
         recovery_factor |-> IF RLt(Zero, max_drawdown)
                             THEN RDiv(total_pnl, max_drawdown) ELSE Zero,
         profit_factor_by_asset |-> calculate_performance_by_asset(closed_trades),
         performance_by_timeframe |-> calculate_performance_by_timeframe(closed_trades)]

----------------------------------------------------------------------------
(* TradeResult (data_structures/trade_results.py) *)

\* The fields the modelled code reads; trade_id, technical_indicators, the
\* excursions and trade_notes are written but never read by it.
TradeResult(status, pnl, pnl_percent, symbol, score, wyckoff, smc, patterns) ==
    [symbol |-> symbol, timeframe |-> "1H",
     entry_time |-> 0, exit_time |-> None,
     entry_price |-> Zero, exit_price |-> None, position_size |-> Zero,
     trade_type |-> "BUY", status |-> status,
     pnl |-> pnl, pnl_percent |-> pnl_percent,
     stop_loss |-> Zero, take_profit |-> Zero,
     patterns_detected |-> patterns,
     confluence_score |-> score,
     wyckoff_signals |-> wyckoff, smc_signals |-> smc,
     risk_reward_ratio |-> Zero, hold_time_hours |-> None]

----------------------------------------------------------------------------
(* The performance calculator driven on lists of up to MaxTrades trades *)

MaxTrades == 3

MetricsTradeInputs ==
    { TradeResult("OPEN", None, None, "EURUSD", R(0), <<>>, <<>>, <<>>),
      TradeResult("OPEN", Some(R(1)), Some(R(1)), "EURUSD", R(0), <<>>, <<>>, <<>>),
      TradeResult("CLOSED", None, None, "EURUSD", R(0), <<>>, <<>>, <<>>),
      TradeResult("STOPPED", Some(R(-1)), Some(R(-1)), "EURUSD", R(0), <<>>, <<>>, <<>>),
      TradeResult("CLOSED", Some(R(2)), Some(R(2)), "EURUSD", R(80), <<>>, <<>>, <<>>),
      TradeResult("CLOSED", Some(R(-1)), Some(R(-1)), "EURUSD", R(80), <<>>, <<>>, <<>>),
      TradeResult("CLOSED", Some(R(0)), Some(R(0)), "EURUSD", R(80), <<>>, <<>>, <<>>),
      TradeResult("CLOSED", Some(R(1)), None, "GBPUSD", R(80), <<>>, <<>>, <<>>) }

\* the caller collects one more trade before calling the calculator
AppendTrade(t) ==
    /\ IsNone(metrics)
    /\ Len(trades) < MaxTrades
    /\ trades' = Append(trades, t)
    /\ UNCHANGED <<metrics, learningVars, toolVars, engineVars, bt, report, call>>

\* metrics = PerformanceCalculator.calculate_basic_metrics(trades)
CalculateBasicMetrics ==
    /\ IsNone(metrics)
    /\ metrics' = Some(calculate_basic_metrics(trades))
    /\ UNCHANGED <<trades, learningVars, toolVars, engineVars, bt, report, call>>

----------------------------------------------------------------------------
(* LearningEngine (learning_engine.py) *)

InitialWeights ==
    [wyckoff_weight |-> Rat(40, 100), smc_weight |-> Rat(30, 100),
     technical_weight |-> Rat(20, 100), pattern_weight |-> Rat(10, 100)]

\* t.pnl and t.pnl > 0
Successful(t) == Truthy(t.pnl) /\ RLt(Zero, Val(t.pnl))

calculate_success_rate(ts) ==
    IF ts = <<>> THEN Zero
    ELSE RMul(Rat(Len(SelectSeq(ts, Successful)), Len(ts)), R(100))

HasPatterns(t) == t.patterns_detected # <<>>

\* _analyze_signal_effectiveness(trades, 'wyckoff_signals' | 'smc_signals')
analyze_signal_effectiveness(ts, signal_field) ==
    LET signal_trades == SelectSeq(ts, LAMBDA t : t[signal_field] # <<>>)
    IN  IF signal_trades = <<>> THEN R(50) ELSE calculate_success_rate(signal_trades)

analyze_pattern_effectiveness(ts) ==
    LET pattern_trades == SelectSeq(ts, HasPatterns)
    IN  IF pattern_trades = <<>> THEN R(50) ELSE calculate_success_rate(pattern_trades)

\* the technical baseline's share of total_effectiveness
TechnicalBaseline == R(50)

\* the sum without the "+ 50" baseline term
total_effectiveness_without_baseline(wyckoff, smc, pattern) ==
    RAdd(RAdd(wyckoff, smc), pattern)

total_effectiveness(wyckoff, smc, pattern) ==
    RAdd(RAdd(RAdd(wyckoff, smc), pattern), TechnicalBaseline)

\* x / y of Python: raises on a zero divisor
PyDiv(x, y) == IF IsZero(y) THEN [raised |-> "ZeroDivisionError"] ELSE RDiv(x, y)
Raised(v) == "raised" \in DOMAIN v

WeightSum(w) ==
    RAdd(RAdd(RAdd(w.wyckoff_weight, w.smc_weight), w.pattern_weight), w.technical_weight)

\* lines 38-67: the weights computed from a list of 10 or more trades, or the
\* exception the computation raises
NewWeights(ts) ==
    LET wyckoff_effectiveness == analyze_signal_effectiveness(ts, "wyckoff_signals")
        smc_effectiveness == analyze_signal_effectiveness(ts, "smc_signals")
        pattern_effectiveness == analyze_pattern_effectiveness(ts)
        total == total_effectiveness(wyckoff_effectiveness, smc_effectiveness,
                                     pattern_effectiveness)
    IN  IF IsZero(total) THEN [raised |-> "ZeroDivisionError"]
        ELSE LET raw == [wyckoff_weight |-> RDiv(wyckoff_effectiveness, total),
                         smc_weight |-> RDiv(smc_effectiveness, total),
                         pattern_weight |-> RDiv(pattern_effectiveness, total),
                         technical_weight |-> RDiv(TechnicalBaseline, total)]
                 weight_sum == WeightSum(raw)
             IN  IF IsZero(weight_sum) THEN [raised |-> "ZeroDivisionError"]
                 ELSE [k \in DOMAIN raw |-> RDiv(raw[k], weight_sum)]

\* an entry whose old_weights are the weights being installed, not the prior ones
HistoryEntry_new_as_old(ts, old_weights, new_weights) ==
    [old_weights |-> new_weights,
     new_weights |-> new_weights,
     high_conf_success |-> Zero, med_conf_success |-> Zero, low_conf_success |-> Zero,
     total_trades_analyzed |-> Len(ts)]

\* the record appended to optimization_history (its timestamp, a wall-clock
\* reading no code compares, is left out)
HistoryEntry(ts, old_weights, new_weights) ==
    [old_weights |-> old_weights,
     new_weights |-> new_weights,
     high_conf_success |->
        calculate_success_rate(SelectSeq(ts, LAMBDA t : RLe(R(80), t.confluence_score))),
     med_conf_success |->
        calculate_success_rate(SelectSeq(ts, LAMBDA t : RLe(R(70), t.confluence_score)
                                                       /\ RLt(t.confluence_score, R(80)))),
     low_conf_success |->
        calculate_success_rate(SelectSeq(ts, LAMBDA t : RLt(t.confluence_score, R(70)))),
     total_trades_analyzed |-> Len(ts)]

MinTradesForAnalysis == 10

\* what le_call records of a call
Call(args, returned) == [args |-> args, returned |-> returned]

\* an engine that already optimizes on a list of nine trades
AnalyzeOutcome_from_nine(ts, weights, history) ==
    IF Len(ts) < MinTradesForAnalysis - 1
    THEN [confluence_weights |-> weights, optimization_history |-> history,
          returned |-> weights]
    ELSE LET new_weights == NewWeights(ts) IN
         IF Raised(new_weights)
         THEN [confluence_weights |-> weights, optimization_history |-> history,
               returned |-> new_weights]
         ELSE [confluence_weights |-> new_weights,
               optimization_history |->
                   Append(history, HistoryEntry(ts, weights, new_weights)),
               returned |-> new_weights]

\* LearningEngine.analyze_confluence_effectiveness(trades) on an engine holding
\* `weights` and `history`: the engine's fields afterwards and the value returned
AnalyzeOutcome(ts, weights, history) ==
    IF Len(ts) < MinTradesForAnalysis
    THEN [confluence_weights |-> weights, optimization_history |-> history,
          returned |-> weights]
    ELSE LET new_weights == NewWeights(ts) IN
         IF Raised(new_weights)
         THEN [confluence_weights |-> weights, optimization_history |-> history,
               returned |-> new_weights]
         ELSE [confluence_weights |-> new_weights,
               optimization_history |->
                   Append(history, HistoryEntry(ts, weights, new_weights)),
               returned |-> new_weights]

analyze_confluence_effectiveness(ts) ==
    LET out == AnalyzeOutcome(ts, confluence_weights, optimization_history)
    IN  /\ confluence_weights' = out.confluence_weights
        /\ optimization_history' = out.optimization_history
        /\ le_call' = Some(Call(ts, out.returned))

\* LearningEngine.update_pattern_reliability(pattern_performances): last write
\* wins per pattern name
RECURSIVE UpdateReliability(_, _)
UpdateReliability(scores, perfs) ==
    IF perfs = <<>> THEN scores
    ELSE LET p == perfs[1]
             next == [n \in DOMAIN scores \cup {p.pattern_name} |->
                        IF n = p.pattern_name THEN p.reliability_score ELSE scores[n]]
         IN  UpdateReliability(next, Tail(perfs))

update_pattern_reliability(pattern_performances) ==
    pattern_reliability_scores' =
        UpdateReliability(pattern_reliability_scores, pattern_performances)

\* LearningEngine.generate_optimization_insights(): the weight_changes it
\* reports; it reads the history and writes nothing
WeightChanges(latest) ==
    [k \in DOMAIN latest.new_weights |->
        [old |-> latest.old_weights[k], new |-> latest.new_weights[k],
         change_percent |->
            IF RLt(Zero, latest.old_weights[k])
            THEN RMul(RDiv(RSub(latest.new_weights[k], latest.old_weights[k]),
                           latest.old_weights[k]), R(100))
            ELSE Zero]]

generate_optimization_insights ==
    IF optimization_history = <<>>
    THEN [message |-> "No optimization history available"]
    ELSE LET latest == optimization_history[Len(optimization_history)]
         IN  [latest_optimization |-> latest, weight_changes |-> WeightChanges(latest)]

----------------------------------------------------------------------------
(* The learning engine driven directly *)

MaxPerKind == 5
MaxHistory == 2

\* One trade of each kind the engine distinguishes: a winner carrying Wyckoff
\* signals and patterns, a loser carrying every signal family, a winner carrying
\* only SMC signals, and a trade with no signals and no pnl.
LearningKinds ==
    << TradeResult("CLOSED", Some(R(3)), Some(R(3)), "EURUSD", R(85),
                   <<"MARKUP (80%)">>, <<>>, <<"MARKUP (80%)">>),
       TradeResult("CLOSED", Some(R(-1)), Some(R(-1)), "EURUSD", R(75),
                   <<"MARKDOWN (80%)">>, <<"Bearish BOS (85%)">>,
                   <<"MARKDOWN (80%)", "Bearish BOS (85%)">>),
       TradeResult("CLOSED", Some(R(2)), Some(R(2)), "EURUSD", R(60),
                   <<>>, <<"Order Flow: INSTITUTIONAL_BUYING">>, <<>>),
       TradeResult("OPEN", None, None, "EURUSD", R(0), <<>>, <<>>, <<>>) >>

\* how many trades of a kind a list holds
CountChoices(k) == IF k <= 3 THEN {0, MaxPerKind} ELSE {0, MaxPerKind - 1, MaxPerKind}
CountVectors == {c \in [1..4 -> 0..MaxPerKind] : \A k \in 1..4 : c[k] \in CountChoices(k)}

Repeat(x, n) == [i \in 1..n |-> x]

\* the list holding counts[k] trades of kind k, kind by kind
TradesOf(counts) ==
    Repeat(LearningKinds[1], counts[1]) \o Repeat(LearningKinds[2], counts[2])
      \o Repeat(LearningKinds[3], counts[3]) \o Repeat(LearningKinds[4], counts[4])

PatternPerformanceInputs ==
    { <<>>,
      << [pattern_name |-> "SPRING", reliability_score |-> R(40)] >>,
      << [pattern_name |-> "SPRING", reliability_score |-> R(40)],
         [pattern_name |-> "SPRING", reliability_score |-> R(90)],
         [pattern_name |-> "BOS", reliability_score |-> R(70)] >> }

\* a caller hands the engine a trade list
CallAnalyzeConfluenceEffectiveness(counts) ==
    /\ Len(optimization_history) < MaxHistory
    /\ analyze_confluence_effectiveness(TradesOf(counts))
    /\ UNCHANGED <<pattern_reliability_scores, metricsVars, toolVars, engineVars, bt,
                   report, call>>

CallUpdatePatternReliability(perfs) ==
    /\ update_pattern_reliability(perfs)
    /\ UNCHANGED <<confluence_weights, optimization_history, le_call,
                   metricsVars, toolVars, engineVars, bt, report, call>>

\* generate_optimization_insights() returns a report (a message while the history
\* is empty) and leaves the engine as it is
CallGenerateOptimizationInsights ==
    /\ \/ "message" \in DOMAIN generate_optimization_insights
       \/ "weight_changes" \in DOMAIN generate_optimization_insights
    /\ UNCHANGED vars

----------------------------------------------------------------------------
(* Initial states and specifications *)

\* The state after construction: no trade list handed to the calculator yet,
\* LearningEngine.__init__, PerformanceAnalyticsTool.__init__, and no analysis
\* or backtest under way.
Init ==
    /\ trades = <<>>
    /\ metrics = None
    /\ confluence_weights = InitialWeights
    /\ optimization_history = <<>>
    /\ pattern_reliability_scores = <<>>
    /\ le_call = None
    /\ trades_database = <<>>
    /\ last_add = None
    /\ ohlc_data = <<>>
    /\ technical_indicators = <<>>
    /\ signal = None
    /\ bt = [pc |-> "idle"]
    /\ report = [pc |-> "idle"]
    /\ call = None

NextMetrics ==
    \/ \E t \in MetricsTradeInputs : AppendTrade(t)
    \/ CalculateBasicMetrics

SpecMetrics ==
    Init /\ [][NextMetrics]_vars

NextLearning ==
    \/ \E counts \in CountVectors : CallAnalyzeConfluenceEffectiveness(counts)
    \/ \E perfs \in PatternPerformanceInputs : CallUpdatePatternReliability(perfs)
    \/ CallGenerateOptimizationInsights

SpecLearning ==
    Init /\ [][NextLearning]_vars

----------------------------------------------------------------------------
(* PatternAnalyzer.analyze_pattern_performance (pattern_analyzer.py) *)

\* one <<pattern, trade>> per entry of each trade's patterns_detected, in order
RECURSIVE Occurrences(_)
Occurrences(ts) ==
    IF ts = <<>> THEN <<>>
    ELSE [i \in 1..Len(ts[1].patterns_detected) |->
             [pattern |-> ts[1].patterns_detected[i], trade |-> ts[1]]]
         \o Occurrences(Tail(ts))

\* the keys of pattern_stats in insertion order
RECURSIVE FirstSeen(_, _)
FirstSeen(occ, seen) ==
    IF occ = <<>> THEN seen
    ELSE FirstSeen(Tail(occ),
                   IF \E i \in 1..Len(seen) : seen[i] = occ[1].pattern
                   THEN seen ELSE Append(seen, occ[1].pattern))

PatternPerformanceOf(name, occ) ==
    LET hits == SelectSeq(occ, LAMBDA o : o.pattern = name)
        mine == [i \in 1..Len(hits) |-> hits[i].trade]
        total == Len(mine)
        wins == Len(SelectSeq(mine, PnlPos))
        total_pnl == RSum(Pnls(SelectSeq(mine, LAMBDA t : ~IsNone(t.pnl))))
        confidence_scores == ConfluenceScores(mine)
        winning == ConfluenceScores(SelectSeq(mine, PnlPos))
        hold_times == HoldTimes(SelectSeq(mine, LAMBDA t : Truthy(t.hold_time_hours)))
        success_rate == RMul(Rat(wins, total), R(100))
        avg_confidence == Mean(confidence_scores)
        frequency_weight == RMin(R(1), Rat(total, 10))
    IN  [pattern_name |-> name, pattern_type |-> "UNKNOWN",
         total_occurrences |-> total, winning_occurrences |-> wins,
         success_rate |-> success_rate,
         avg_pnl |-> RDiv(total_pnl, R(total)),
         avg_confidence_when_detected |-> avg_confidence,
         avg_confidence_when_successful |-> IF winning # <<>> THEN Mean(winning) ELSE Zero,
         avg_hold_time_hours |-> IF hold_times # <<>> THEN Mean(hold_times) ELSE Zero,
         reliability_score |->
            RMul(RAdd(RMul(success_rate, Rat(7, 10)), RMul(avg_confidence, Rat(3, 10))),
                 frequency_weight)]

\* sorted(..., key=reliability_score, reverse=True): stable, best first
RECURSIVE InsertByReliability(_, _)
InsertByReliability(sorted, x) ==
    IF sorted = <<>> THEN <<x>>
    ELSE IF RLt(sorted[1].reliability_score, x.reliability_score)
         THEN <<x>> \o sorted
         ELSE <<sorted[1]>> \o InsertByReliability(Tail(sorted), x)

RECURSIVE SortByReliability(_, _)
SortByReliability(perfs, acc) ==
    IF perfs = <<>> THEN acc
    ELSE SortByReliability(Tail(perfs), InsertByReliability(acc, perfs[1]))

analyze_pattern_performance(ts) ==
    LET occ == Occurrences(ts)
        names == FirstSeen(occ, <<>>)
    IN  SortByReliability([i \in 1..Len(names) |-> PatternPerformanceOf(names[i], occ)],
                          <<>>)

----------------------------------------------------------------------------
(* PerformanceAnalyticsTool: trade recording and optimisation
   (performance_analytics_tool.py) *)

recalibration_frequency == 5
MinClosedForOptimization == 10

IsClosed(t) == t.status = "CLOSED"

\* whether _optimize_system, run on database db, reaches the learning engine
OptimizeReachesEngine(db) == Len(SelectSeq(db, IsClosed)) >= MinClosedForOptimization

\* _optimize_system() on database db: the learning engine's fields afterwards
optimize_system(db) ==
    LET closed_trades == SelectSeq(db, IsClosed) IN
    IF ~OptimizeReachesEngine(db)
    THEN UNCHANGED learningVars
    ELSE LET out == AnalyzeOutcome(closed_trades, confluence_weights, optimization_history)
         IN  /\ confluence_weights' = out.confluence_weights
             /\ optimization_history' = out.optimization_history
             /\ le_call' = Some(Call(closed_trades, out.returned))
             /\ IF Raised(out.returned)
                THEN UNCHANGED pattern_reliability_scores
                ELSE update_pattern_reliability(analyze_pattern_performance(closed_trades))

\* whether _add_trade_result runs _trigger_recalibration once the database is db
RecalibrationDue(db) == Len(SelectSeq(db, IsClosed)) % recalibration_frequency = 0

\* _run("add_trade", data): data.malformed stands for a trade_data whose
\* entry_time or exit_time datetime.fromisoformat rejects
add_trade_result(data) ==
    IF data.malformed
    THEN /\ last_add' = Some([added |-> FALSE, status |-> "ERROR",
                              closed |-> Len(SelectSeq(trades_database, IsClosed)),
                              optimized |-> FALSE])
         /\ UNCHANGED <<trades_database, learningVars>>
    ELSE LET current_trades == Append(trades_database, data.trade) IN
         /\ trades_database' = current_trades
         /\ IF RecalibrationDue(current_trades)
            THEN optimize_system(current_trades)
            ELSE UNCHANGED learningVars
         /\ last_add' = Some([added |-> TRUE, status |-> data.trade.status,
                              closed |-> Len(SelectSeq(current_trades, IsClosed)),
                              optimized |-> RecalibrationDue(current_trades)
                                            /\ OptimizeReachesEngine(current_trades)])

MaxDatabase == 11

TradeDataInputs ==
    { [malformed |-> TRUE,
       trade |-> TradeResult("OPEN", None, None, "UNKNOWN", R(0), <<>>, <<>>, <<>>)],
      [malformed |-> FALSE,
       trade |-> TradeResult("OPEN", None, None, "UNKNOWN", R(0), <<>>, <<>>, <<>>)],
      [malformed |-> FALSE,
       trade |-> TradeResult("CLOSED", Some(R(3)), Some(R(3)), "EURUSD", R(85),
                             <<"MARKUP (80%)">>, <<>>, <<"MARKUP (80%)">>)] }

AddTrade(data) ==
    /\ Len(trades_database) < MaxDatabase
    /\ add_trade_result(data)
    /\ UNCHANGED <<metricsVars, engineVars, bt, report, call>>

\* _run("optimize")
Optimize ==
    /\ Len(optimization_history) < MaxHistory
    /\ optimize_system(trades_database)
    /\ UNCHANGED <<toolVars, metricsVars, engineVars, bt, report, call>>

NextTool ==
    \/ \E data \in TradeDataInputs : AddTrade(data)
    \/ Optimize

SpecTool == Init /\ [][NextTool]_vars

----------------------------------------------------------------------------
(* OHLC bars (data_structures/ohlc.py).  The modelled series carry whole
   numbers for prices and volumes; a timestamp counts hours. *)

OHLCData(timestamp, open, high, low, close, volume) ==
    [symbol |-> "EURUSD", timeframe |-> "1H", timestamp |-> timestamp,
     open |-> open, high |-> high, low |-> low, close |-> close, volume |-> volume]

\* Python's s[a:b] for 0 <= a
Slice(s, a, b) == SubSeq(s, a + 1, IF b < Len(s) THEN b ELSE Len(s))
\* Python's s[-k:]
LastN(s, k) == SubSeq(s, IF Len(s) > k THEN Len(s) - k + 1 ELSE 1, Len(s))
\* Python's s[:k]
FirstN(s, k) == SubSeq(s, 1, IF k < Len(s) THEN k ELSE Len(s))
\* list(range(a, b))
Range(a, b) == [k \in 1..(IF b > a THEN b - a ELSE 0) |-> a + k - 1]
\* s[i] for a Python index i >= 0
At(s, i) == s[i + 1]

Closes(ohlc) == [k \in 1..Len(ohlc) |-> ohlc[k].close]
Highs(ohlc) == [k \in 1..Len(ohlc) |-> ohlc[k].high]
Lows(ohlc) == [k \in 1..Len(ohlc) |-> ohlc[k].low]

\* [c.volume for c in ohlc_data if c.volume > 0]
Volumes(ohlc) ==
    LET kept == SelectSeq(ohlc, LAMBDA c : c.volume > 0)
    IN  [k \in 1..Len(kept) |-> kept[k].volume]

\* s[a] + ... + s[b], by halves
RECURSIVE SumRange(_, _, _)
SumRange(s, a, b) ==
    IF a > b THEN 0
    ELSE IF a = b THEN s[a]
    ELSE SumRange(s, a, (a + b) \div 2) + SumRange(s, (a + b) \div 2 + 1, b)

Sum(s) == SumRange(s, 1, Len(s))

MaxOf(s) == CHOOSE x \in {s[k] : k \in 1..Len(s)} : \A k \in 1..Len(s) : s[k] <= x
MinOf(s) == CHOOSE x \in {s[k] : k \in 1..Len(s)} : \A k \in 1..Len(s) : x <= s[k]

\* np.mean of a non-empty list of whole numbers
IntMean(s) == Rat(Sum(s), Len(s))

\* ss[a] \o ... \o ss[b], by halves
RECURSIVE FlattenRange(_, _, _)
FlattenRange(ss, a, b) ==
    IF a > b THEN <<>>
    ELSE IF a = b THEN ss[a]
    ELSE FlattenRange(ss, a, (a + b) \div 2) \o FlattenRange(ss, (a + b) \div 2 + 1, b)

Flatten(ss) == FlattenRange(ss, 1, Len(ss))

RECURSIVE Join(_, _)
Join(sep, parts) ==
    IF Len(parts) = 1 THEN parts[1] ELSE parts[1] \o sep \o Join(sep, Tail(parts))

----------------------------------------------------------------------------
(* AdvancedWyckoffAnalyzer (advanced_wyckoff_analyzer.py) *)

MinBarsForActivity == 20
MinBarsForSchematic == 100

volume_threshold == Rat(3, 2)

\* what the loop body appends for bar `current`: one entry or nothing
CompositeActivityAt(current, avg_volume) ==
    IF ~RLt(RMul(avg_volume, volume_threshold), R(current.volume)) THEN <<>>
    ELSE
    LET price_change == Rat(Abs(current.close - current.open), current.open)
        entry(type) == [type |-> type, timestamp |-> current.timestamp,
                        volume_ratio |-> RDiv(R(current.volume), avg_volume),
                        price_change |-> price_change, price |-> current.close]
    IN  IF RLt(price_change, Rat(5, 1000))
        THEN <<entry(IF current.close > current.open
                     THEN "ACCUMULATION_ABSORPTION" ELSE "DISTRIBUTION_ABSORPTION")>>
        ELSE IF RLt(Rat(1, 100), price_change)
        THEN <<entry(IF current.close > current.open
                     THEN "INSTITUTIONAL_BUYING" ELSE "INSTITUTIONAL_SELLING")>>
        ELSE <<>>

detect_composite_operator_activity(ohlc) ==
    IF Len(ohlc) < MinBarsForActivity THEN [detected |-> FALSE]
    ELSE IF Volumes(ohlc) = <<>> THEN [detected |-> FALSE]
    ELSE
    LET avg_volume == IntMean(LastN(Volumes(ohlc), 20))
        scanned == Range(10, Len(ohlc))
        institutional_activity ==
            Flatten([k \in 1..Len(scanned) |->
                        CompositeActivityAt(At(ohlc, scanned[k]), avg_volume)])
    IN  [detected |-> Len(institutional_activity) > 0,
         activities |-> institutional_activity,
         total_activities |-> Len(institutional_activity),
         latest_activity |-> IF institutional_activity # <<>>
                             THEN Some(institutional_activity[Len(institutional_activity)])
                             ELSE None]

\* np.std(xs) / np.mean(xs) < 0.02 for whole numbers xs with a positive sum:
\* with n = len, S = sum and Q = sum of squares the quotient squared is
\* (n*Q - S*S) / (S*S), to be below 1/2500
LowVolatility(xs) ==
    LET n == Len(xs)
        S == Sum(xs)
        Q == Sum([k \in 1..n |-> xs[k] * xs[k]])
    IN  n * Q - S * S <= (S * S - 1) \div 2500

VolumePattern(volumes) ==
    IF volumes = <<>> THEN "NO_VOLUME_DATA"
    ELSE LET recent_vol_avg == IntMean(LastN(volumes, 20))
             early_vol_avg == IntMean(FirstN(volumes, 20))
         IN  IF RLt(RMul(early_vol_avg, Rat(12, 10)), recent_vol_avg) THEN "INCREASING"
             ELSE IF RLt(recent_vol_avg, RMul(early_vol_avg, Rat(8, 10))) THEN "DECREASING"
             ELSE "STABLE"

\* the phase determination (lines 99-124)
WyckoffPhase(low_volatility, volume_pattern, price_position) ==
    IF low_volatility /\ volume_pattern \in {"STABLE", "DECREASING"}
    THEN IF RLt(price_position, Rat(3, 10))
         THEN [phase |-> "ACCUMULATION", confidence |-> 75, expected_direction |-> "BULLISH"]
         ELSE IF RLt(Rat(7, 10), price_position)
         THEN [phase |-> "DISTRIBUTION", confidence |-> 75, expected_direction |-> "BEARISH"]
         ELSE [phase |-> "CONSOLIDATION", confidence |-> 60, expected_direction |-> "NEUTRAL"]
    ELSE IF volume_pattern = "INCREASING"
    THEN IF RLt(Rat(1, 2), price_position)
         THEN [phase |-> "MARKUP", confidence |-> 80, expected_direction |-> "BULLISH"]
         ELSE [phase |-> "MARKDOWN", confidence |-> 80, expected_direction |-> "BEARISH"]
    ELSE [phase |-> "TRANSITION", confidence |-> 50, expected_direction |-> "NEUTRAL"]

detect_wyckoff_schematic(ohlc) ==
    IF Len(ohlc) < MinBarsForSchematic THEN [phase |-> "INSUFFICIENT_DATA"]
    ELSE
    LET closes == Closes(ohlc)
        price_range == MaxOf(closes) - MinOf(closes)
        low_volatility == LowVolatility(LastN(closes, 50))
        volume_pattern == VolumePattern(Volumes(ohlc))
        current_price == closes[Len(closes)]
    IN  IF price_range = 0 THEN [raised |-> "ZeroDivisionError"]
        ELSE
        LET price_position == Rat(current_price - MinOf(closes), price_range)
            p == WyckoffPhase(low_volatility, volume_pattern, price_position)
        IN  [phase |-> p.phase, confidence |-> p.confidence,
             expected_direction |-> p.expected_direction,
             price_position |-> price_position, volume_pattern |-> volume_pattern,
             price_volatility |-> [sym |-> "std/mean", below_2_percent |-> low_volatility]]

----------------------------------------------------------------------------
(* AdvancedSMCAnalyzer (advanced_smc_analyzer.py) *)

MinBarsForStructure == 20
MinBarsForOrderFlow == 30

IsSwingHigh(highs, i) == \A j \in (i - 5)..(i + 5) : At(highs, i) >= At(highs, j)
IsSwingLow(lows, i) == \A j \in (i - 5)..(i + 5) : At(lows, i) <= At(lows, j)

SwingPoint(ohlc, i, price) ==
    [index |-> i, price |-> price, timestamp |-> At(ohlc, i).timestamp]

detect_market_structure_shift(ohlc) ==
    IF Len(ohlc) < MinBarsForStructure THEN [detected |-> FALSE]
    ELSE
    LET highs == Highs(ohlc)
        lows == Lows(ohlc)
        candidates == Range(5, Len(ohlc) - 5)
        high_at == SelectSeq(candidates, LAMBDA i : IsSwingHigh(highs, i))
        low_at == SelectSeq(candidates, LAMBDA i : IsSwingLow(lows, i))
        swing_highs == [k \in 1..Len(high_at) |-> SwingPoint(ohlc, high_at[k], At(highs, high_at[k]))]
        swing_lows == [k \in 1..Len(low_at) |-> SwingPoint(ohlc, low_at[k], At(lows, low_at[k]))]
    IN  IF Len(swing_highs) < 2 \/ Len(swing_lows) < 2 THEN [detected |-> FALSE]
        ELSE
        LET current_price == ohlc[Len(ohlc)].close
            prev_high == swing_highs[Len(swing_highs) - 1]
            prev_low == swing_lows[Len(swing_lows) - 1]
            bullish ==
                IF RLt(RMul(R(prev_high.price), Rat(1001, 1000)), R(current_price))
                THEN <<[type |-> "BULLISH_BOS", confidence |-> 85,
                        break_level |-> prev_high.price, current_price |-> current_price]>>
                ELSE <<>>
            bearish ==
                IF RLt(R(current_price), RMul(R(prev_low.price), Rat(999, 1000)))
                THEN <<[type |-> "BEARISH_BOS", confidence |-> 85,
                        break_level |-> prev_low.price, current_price |-> current_price]>>
                ELSE <<>>
            structure_shifts == bullish \o bearish
        IN  [detected |-> Len(structure_shifts) > 0,
             shifts |-> structure_shifts,
             swing_highs |-> LastN(swing_highs, 3),
             swing_lows |-> LastN(swing_lows, 3)]

\* what the loop body appends for the bar at index i: one signal or nothing
OrderFlowSignalAt(ohlc, volumes, i) ==
    LET current == At(ohlc, i)
        window == Slice(volumes, IF i - 10 > 0 THEN i - 10 ELSE 0, i)
        \* np.mean of an empty slice is nan, and nan > 0 is false
        volume_ratio == IF window # <<>> /\ Sum(window) > 0
                        THEN RDiv(R(current.volume), IntMean(window))
                        ELSE R(1)
        body_size == Abs(current.close - current.open)
        candle_range == current.high - current.low
        body_ratio == IF candle_range > 0 THEN Rat(body_size, candle_range) ELSE Zero
    IN  IF RLt(R(2), volume_ratio) /\ RLt(Rat(7, 10), body_ratio)
        THEN <<[type |-> IF current.close > current.open
                         THEN "INSTITUTIONAL_BUYING" ELSE "INSTITUTIONAL_SELLING",
                confidence |-> RMin(R(90), RAdd(R(60), RMul(volume_ratio, R(10)))),
                timestamp |-> current.timestamp, price |-> current.close,
                volume_ratio |-> volume_ratio, body_ratio |-> body_ratio]>>
        ELSE IF RLt(Rat(18, 10), volume_ratio) /\ RLt(body_ratio, Rat(3, 10))
        THEN <<[type |-> "ABSORPTION", confidence |-> R(70),
                timestamp |-> current.timestamp, price |-> current.close,
                volume_ratio |-> volume_ratio]>>
        ELSE <<>>

detect_institutional_order_flow(ohlc) ==
    IF Len(ohlc) < MinBarsForOrderFlow THEN [detected |-> FALSE]
    ELSE IF Volumes(ohlc) = <<>> THEN [detected |-> FALSE]
    ELSE
    LET volumes == Volumes(ohlc)
        scanned == Range(10, Len(ohlc) - 5)
        order_flow_signals ==
            Flatten([k \in 1..Len(scanned) |-> OrderFlowSignalAt(ohlc, volumes, scanned[k])])
    IN  [detected |-> Len(order_flow_signals) > 0,
         signals |-> order_flow_signals,
         total_signals |-> Len(order_flow_signals),
         latest_signal |-> IF order_flow_signals # <<>>
                           THEN Some(order_flow_signals[Len(order_flow_signals)])
                           ELSE None]

----------------------------------------------------------------------------
(* ConfluenceAnalyzer (confluence_analyzer.py) *)

MinBarsForConfluence == 20
SignalThreshold == 60
AtrPeriod == 14

\* a dict as a function on its keys; d.get(key) is None for a missing key
DictGet(d, key) == IF key \in DOMAIN d THEN Some(d[key]) ELSE None

\* `word in type`, over the type names the analyzers produce
TypeContains(type, word) ==
    <<type, word>> \in {<<"INSTITUTIONAL_BUYING", "BUYING">>,
                        <<"INSTITUTIONAL_SELLING", "SELLING">>,
                        <<"ACCUMULATION_ABSORPTION", "ACCUMULATION">>,
                        <<"DISTRIBUTION_ABSORPTION", "DISTRIBUTION">>}

\* the signal returned for fewer than 20 bars; its timestamp is the wall clock
\* (datetime.now()), written 0, which no bar carries
Sentinel ==
    [signal_type |-> "NEUTRAL", confluence_score |-> Zero, entry_price |-> Zero,
     stop_loss |-> Zero, take_profit |-> Zero, risk_reward_ratio |-> Zero,
     wyckoff_patterns |-> <<>>, smc_patterns |-> <<>>, supporting_indicators |-> <<>>,
     timestamp |-> 0, reasoning |-> "Not enough data for confluence analysis"]

\* The running values of the scoring section (lines 45-50)
Scoring(score, type, wyckoff, smc, supporting, reasons) ==
    [confluence_score |-> score, signal_type |-> type, wyckoff_patterns |-> wyckoff,
     smc_patterns |-> smc, supporting_indicators |-> supporting, reasoning_parts |-> reasons]

Add(acc, points, field, pattern, reason) ==
    [acc EXCEPT !.confluence_score = RAdd(@, points),
                ![field] = Append(@, pattern),
                !.reasoning_parts = Append(@, reason)]

\* Wyckoff scoring (lines 53-63); the schematic carries expected_direction here
WyckoffScoring(wyckoff_schematic) ==
    LET start == Scoring(Zero, "NEUTRAL", <<>>, <<>>, <<>>, <<>>)
        points == RMul(R(wyckoff_schematic.confidence), Rat(4, 10))
        label == wyckoff_schematic.phase \o " ("
                 \o ToString(wyckoff_schematic.confidence) \o "%)"
    IN  IF wyckoff_schematic.expected_direction = "BULLISH"
        THEN Add([start EXCEPT !.signal_type = "BUY"], points, "wyckoff_patterns", label,
                 "Wyckoff " \o wyckoff_schematic.phase \o " phase indicates bullish bias")
        ELSE IF wyckoff_schematic.expected_direction = "BEARISH"
        THEN Add([start EXCEPT !.signal_type = "SELL"], points, "wyckoff_patterns", label,
                 "Wyckoff " \o wyckoff_schematic.phase \o " phase indicates bearish bias")
        ELSE start

\* Composite operator activity scoring (lines 66-78)
CompositeScoring(acc, composite_operator) ==
    IF ~composite_operator.detected \/ IsNone(composite_operator.latest_activity) THEN acc
    ELSE
    LET latest_activity == Val(composite_operator.latest_activity)
        label == "Institutional " \o latest_activity.type
    IN  IF TypeContains(latest_activity.type, "BUYING")
           \/ TypeContains(latest_activity.type, "ACCUMULATION")
        THEN IF acc.signal_type = "BUY"
             THEN Add(acc, R(15), "wyckoff_patterns", label,
                      "Institutional buying activity detected")
             ELSE acc
        ELSE IF TypeContains(latest_activity.type, "SELLING")
                \/ TypeContains(latest_activity.type, "DISTRIBUTION")
        THEN IF acc.signal_type = "SELL"
             THEN Add(acc, R(15), "wyckoff_patterns", label,
                      "Institutional selling activity detected")
             ELSE acc
        ELSE acc

\* one pass of the loop over market_structure['shifts'] (lines 82-90)
ShiftScoring(acc, shift) ==
    LET points == RMul(R(shift.confidence), Rat(3, 10)) IN
    IF shift.type = "BULLISH_BOS" /\ acc.signal_type = "BUY"
    THEN Add(acc, points, "smc_patterns",
             "Bullish BOS (" \o ToString(shift.confidence) \o "%)",
             "Bullish break of structure confirms upward bias")
    ELSE IF shift.type = "BEARISH_BOS" /\ acc.signal_type = "SELL"
    THEN Add(acc, points, "smc_patterns",
             "Bearish BOS (" \o ToString(shift.confidence) \o "%)",
             "Bearish break of structure confirms downward bias")
    ELSE acc

RECURSIVE ShiftsScoring(_, _)
ShiftsScoring(acc, shifts) ==
    IF shifts = <<>> THEN acc
    ELSE ShiftsScoring(ShiftScoring(acc, shifts[1]), Tail(shifts))

StructureScoring(acc, market_structure) ==
    IF market_structure.detected THEN ShiftsScoring(acc, market_structure.shifts) ELSE acc

\* Order flow scoring (lines 93-99)
OrderFlowScoring(acc, order_flow) ==
    IF ~order_flow.detected \/ IsNone(order_flow.latest_signal) THEN acc
    ELSE
    LET latest_signal == Val(order_flow.latest_signal) IN
    IF \/ TypeContains(latest_signal.type, "BUYING") /\ acc.signal_type = "BUY"
       \/ TypeContains(latest_signal.type, "SELLING") /\ acc.signal_type = "SELL"
    THEN Add(acc, RMul(latest_signal.confidence, Rat(2, 10)), "smc_patterns",
             "Order Flow: " \o latest_signal.type,
             "Recent " \o latest_signal.type \o " detected")
    ELSE acc

\* RSI scoring (lines 103-113); the label keeps the value it formats
RsiScoring(acc, indicators) ==
    IF "rsi" \notin DOMAIN indicators THEN acc
    ELSE
    LET rsi_value == DictGet(indicators["rsi"], "value") IN
    IF ~Truthy(rsi_value) THEN acc
    ELSE IF RLt(Val(rsi_value), R(30)) /\ acc.signal_type = "BUY"
    THEN Add(acc, R(10), "supporting_indicators",
             [label |-> "RSI Oversold", value |-> Val(rsi_value)],
             "RSI oversold supports bullish bias")
    ELSE IF RLt(R(70), Val(rsi_value)) /\ acc.signal_type = "SELL"
    THEN Add(acc, R(10), "supporting_indicators",
             [label |-> "RSI Overbought", value |-> Val(rsi_value)],
             "RSI overbought supports bearish bias")
    ELSE acc

\* MACD scoring (lines 115-125)
MacdScoring(acc, indicators) ==
    IF "macd" \notin DOMAIN indicators THEN acc
    ELSE
    LET histogram == DictGet(indicators["macd"], "histogram") IN
    IF ~Truthy(histogram) THEN acc
    ELSE IF RLt(Zero, Val(histogram)) /\ acc.signal_type = "BUY"
    THEN Add(acc, R(8), "supporting_indicators", [label |-> "MACD Bullish"],
             "MACD histogram bullish")
    ELSE IF RLt(Val(histogram), Zero) /\ acc.signal_type = "SELL"
    THEN Add(acc, R(8), "supporting_indicators", [label |-> "MACD Bearish"],
             "MACD histogram bearish")
    ELSE acc

\* Technical indicators scoring (lines 102-125)
IndicatorScoring(acc, indicators) ==
    IF DOMAIN indicators = {} THEN acc
    ELSE MacdScoring(RsiScoring(acc, indicators), indicators)

\* a mutation of line 128: the score is passed on as accumulated
normalize_score_unclamped(confluence_score) == confluence_score

\* confluence_score = min(100, max(0, confluence_score))
normalize_score(confluence_score) == RMin(R(100), RMax(Zero, confluence_score))

TrueRange(current, previous) ==
    LET tr1 == current.high - current.low
        tr2 == Abs(current.high - previous.close)
        tr3 == Abs(current.low - previous.close)
    IN  MaxOf(<<tr1, tr2, tr3>>)

calculate_atr(ohlc) ==
    IF Len(ohlc) < 2 THEN Rat(1, 100)
    ELSE IntMean([k \in 1..(Len(ohlc) - 1) |-> TrueRange(ohlc[k + 1], ohlc[k])])

\* The float arithmetic of lines 135-150.  The model's numbers are exact, and
\* the code's are too when the ATR is a dyadic rational (every product, sum and
\* quotient is then representable).  Otherwise the quotient of line 150 can come
\* out one step below or above the exact value, or on it: `rounding` is that
\* outcome, -1, 0 or 1, and Ulp stands for the step.
RECURSIVE IsPowerOfTwo(_)
IsPowerOfTwo(d) == d = 1 \/ (d > 1 /\ d % 2 = 0 /\ IsPowerOfTwo(d \div 2))

Ulp == Rat(1, 1000)

RoundingOutcomes(ohlc) ==
    IF Len(ohlc) < MinBarsForConfluence THEN {0}
    ELSE IF IsPowerOfTwo(calculate_atr(LastN(ohlc, AtrPeriod)).d) THEN {0}
    ELSE {-1, 0, 1}

\* Risk management levels (lines 135-150)
RiskLevels(signal_type, current_price, atr, rounding) ==
    LET stop_loss ==
            IF signal_type = "BUY" THEN RSub(current_price, RMul(atr, Rat(15, 10)))
            ELSE IF signal_type = "SELL" THEN RAdd(current_price, RMul(atr, Rat(15, 10)))
            ELSE current_price
        take_profit ==
            IF signal_type = "BUY" THEN RAdd(current_price, RMul(atr, Rat(45, 10)))
            ELSE IF signal_type = "SELL" THEN RSub(current_price, RMul(atr, Rat(45, 10)))
            ELSE current_price
        risk == RAbs(RSub(stop_loss, current_price))
        reward == RAbs(RSub(take_profit, current_price))
    IN  [entry_price |-> current_price, stop_loss |-> stop_loss, take_profit |-> take_profit,
         risk_reward_ratio |->
            IF RLt(Zero, risk) THEN RAdd(RDiv(reward, risk), RMul(R(rounding), Ulp))
            ELSE Zero]

\* analyze_confluence from line 44 on, the four analyses done
ScoreConfluence(ohlc, indicators, wyckoff_schematic, rounding) ==
    LET composite_operator == detect_composite_operator_activity(ohlc)
        market_structure == detect_market_structure_shift(ohlc)
        order_flow == detect_institutional_order_flow(ohlc)
        scored == IndicatorScoring(
                      OrderFlowScoring(
                          StructureScoring(
                              CompositeScoring(WyckoffScoring(wyckoff_schematic),
                                               composite_operator),
                              market_structure),
                          order_flow),
                      indicators)
        confluence_score == normalize_score(scored.confluence_score)
        signal_type == IF RLt(confluence_score, R(SignalThreshold))
                       THEN "NEUTRAL" ELSE scored.signal_type
        levels == RiskLevels(signal_type, R(ohlc[Len(ohlc)].close),
                             calculate_atr(LastN(ohlc, AtrPeriod)), rounding)
    IN  [signal_type |-> signal_type, confluence_score |-> confluence_score,
         entry_price |-> levels.entry_price, stop_loss |-> levels.stop_loss,
         take_profit |-> levels.take_profit,
         risk_reward_ratio |-> levels.risk_reward_ratio,
         wyckoff_patterns |-> scored.wyckoff_patterns,
         smc_patterns |-> scored.smc_patterns,
         supporting_indicators |-> scored.supporting_indicators,
         timestamp |-> ohlc[Len(ohlc)].timestamp,
         reasoning |-> IF scored.reasoning_parts # <<>>
                       THEN Join(". ", scored.reasoning_parts)
                       ELSE "No significant confluence detected"]

\* ConfluenceAnalyzer.analyze_confluence(ohlc_data, technical_indicators): the
\* ConfluenceSignal returned, or the exception that leaves the call
analyze_confluence(ohlc, indicators, rounding) ==
    IF Len(ohlc) < MinBarsForConfluence THEN Sentinel
    ELSE
    LET wyckoff_schematic == detect_wyckoff_schematic(ohlc) IN
    IF Raised(wyckoff_schematic) THEN wyckoff_schematic
    ELSE IF "expected_direction" \notin DOMAIN wyckoff_schematic
    THEN [raised |-> "KeyError: 'expected_direction'"]
    ELSE ScoreConfluence(ohlc, indicators, wyckoff_schematic, rounding)

----------------------------------------------------------------------------
(* The confluence engine driven on a family of bar series.  A series is a
   quiet stretch at 200 with volume 100, one event bar, nineteen quiet bars at
   the level the event closed on, and a final bar; shorter inputs are the last
   bars of it. *)

MaxBars == 101

Quiet(n, level, volume) ==
    [k \in 1..n |-> OHLCData(0, level, level + 1, level - 1, level, volume)]

EventKinds == {"none", "buying", "selling", "rally", "slide", "absorption"}

EventBar(level, kind) ==
    CASE kind = "none" -> OHLCData(0, level, level + 1, level - 1, level, 100)
      [] kind = "buying" -> OHLCData(0, level, level + 6, level, level + 6, 400)
      [] kind = "selling" -> OHLCData(0, level, level, level - 6, level - 6, 400)
      [] kind = "rally" -> OHLCData(0, level, level + 12, level, level + 12, 400)
      [] kind = "slide" -> OHLCData(0, level, level, level - 12, level - 12, 400)
      [] kind = "absorption" -> OHLCData(0, level, level + 3, level - 3, level, 400)

FinalKinds == {"flat", "breakout", "breakdown", "uptick", "downtick", "pullback"}

FinalBar(level, kind, volume) ==
    CASE kind = "flat" -> OHLCData(0, level, level + 1, level - 1, level, volume)
      [] kind = "breakout" -> OHLCData(0, level, level + 15, level, level + 14, 500)
      [] kind = "breakdown" -> OHLCData(0, level, level + 1, level - 15, level - 14, 500)
      [] kind = "uptick" -> OHLCData(0, level, level + 2, level, level + 1, 500)
      [] kind = "downtick" -> OHLCData(0, level, level + 1, level - 2, level - 1, 500)
      [] kind = "pullback" -> OHLCData(0, level, level + 1, level - 4, level - 3, volume)

QuietVolumes == {60, 100, 130}

\* timestamps 1, 2, ... in order
Stamp(bars) == [k \in 1..Len(bars) |-> [bars[k] EXCEPT !.timestamp = k]]

Template(n, event, volume, final) ==
    Quiet(n - 21, 200, 100) \o <<EventBar(200, event)>>
      \o Quiet(19, EventBar(200, event).close, volume)
      \o <<FinalBar(EventBar(200, event).close, final, volume)>>

Series(n, event, volume, final) ==
    Stamp(LastN(Template(IF n > 21 THEN n ELSE 21, event, volume, final), n))

SeriesLengths == {0, 1, 19, 20, 99, 100, MaxBars}

ConfluenceSeriesInputs ==
    {Series(n, event, volume, final) :
        n \in SeriesLengths, event \in EventKinds, volume \in QuietVolumes, final \in FinalKinds}

\* technical_indicators: 'rsi' and 'macd' each absent or present, with and
\* without the key that is read
RsiChoices ==
    {None, Some(<<>>), Some([value |-> Zero]), Some([value |-> R(20)]), Some([value |-> R(80)])}
MacdChoices ==
    {None, Some([histogram |-> R(-1)]), Some([histogram |-> Zero]), Some([histogram |-> R(1)])}

Indicators(rsi, macd) ==
    [k \in (IF IsNone(rsi) THEN {} ELSE {"rsi"}) \cup (IF IsNone(macd) THEN {} ELSE {"macd"})
        |-> IF k = "rsi" THEN Val(rsi) ELSE Val(macd)]

IndicatorInputs == {Indicators(rsi, macd) : rsi \in RsiChoices, macd \in MacdChoices}

\* analyze_confluence(ohlc_data, technical_indicators), called once
AnalyzeConfluence ==
    /\ IsNone(signal)
    /\ \E rounding \in RoundingOutcomes(ohlc_data) :
           signal' = Some(analyze_confluence(ohlc_data, technical_indicators, rounding))
    /\ UNCHANGED <<ohlc_data, technical_indicators, bt, metricsVars, learningVars, toolVars,
                   report, call>>

InitConfluence ==
    /\ trades = <<>>
    /\ metrics = None
    /\ confluence_weights = InitialWeights
    /\ optimization_history = <<>>
    /\ pattern_reliability_scores = <<>>
    /\ le_call = None
    /\ trades_database = <<>>
    /\ last_add = None
    /\ ohlc_data \in ConfluenceSeriesInputs
    /\ technical_indicators \in IndicatorInputs
    /\ signal = None
    /\ bt = [pc |-> "idle"]
    /\ report = [pc |-> "idle"]
    /\ call = None

NextConfluence == AnalyzeConfluence

SpecConfluence == InitConfluence /\ [][NextConfluence]_vars

----------------------------------------------------------------------------
(* BacktestingTool (back_testing_tool.py) *)

MinBarsForBacktest == 100
window_size == 100
ScanMargin == 10
MaxHoldBars == 50

\* strategy_config.get(key, default)
ConfigGet(config, key, default) == IF key \in DOMAIN config THEN config[key] ELSE default

default_initial_balance == R(10000)
default_risk_per_trade == Rat(2, 100)
default_min_risk_reward == R(3)
default_min_confluence_score == R(70)

\* BacktestingTool._get_technical_indicators
get_technical_indicators(ohlc) ==
    IF Len(ohlc) < 20 THEN <<>>
    ELSE
    LET closes == Closes(ohlc)
        changes == [k \in 1..(Len(closes) - 1) |-> closes[k + 1] - closes[k]]
        gains == [k \in 1..Len(changes) |-> IF changes[k] > 0 THEN changes[k] ELSE 0]
        losses == [k \in 1..Len(changes) |-> IF -changes[k] > 0 THEN -changes[k] ELSE 0]
        avg_gain == IntMean(LastN(gains, 14))
        avg_loss == IntMean(LastN(losses, 14))
        rsi == IF Len(gains) >= 14
               THEN IF RLt(Zero, avg_loss)
                    THEN RSub(R(100), RDiv(R(100), RAdd(R(1), RDiv(avg_gain, avg_loss))))
                    ELSE R(100)
               ELSE R(50)
    IN  [rsi |-> [value |-> rsi], macd |-> [histogram |-> Rat(1, 1000)]]

Exit(price, candle, reason) ==
    [exit_price |-> price, exit_time |-> candle.timestamp, exit_reason |-> reason]

\* a mutation of lines 225-247: the take-profit test ahead of the stop-loss test
ExitAt_target_first(candle, trade_type, stop_loss, take_profit) ==
    IF trade_type = "BUY" /\ RLe(take_profit, R(candle.high))
    THEN Some(Exit(take_profit, candle, "TAKE_PROFIT"))
    ELSE IF trade_type = "SELL" /\ RLe(R(candle.low), take_profit)
    THEN Some(Exit(take_profit, candle, "TAKE_PROFIT"))
    ELSE IF trade_type = "BUY" /\ RLe(R(candle.low), stop_loss)
    THEN Some(Exit(stop_loss, candle, "STOP_LOSS"))
    ELSE IF trade_type = "SELL" /\ RLe(stop_loss, R(candle.high))
    THEN Some(Exit(stop_loss, candle, "STOP_LOSS"))
    ELSE None

\* the loop body of lines 225-247 on one candle: the exit it breaks with, or None
ExitAt(candle, trade_type, stop_loss, take_profit) ==
    IF trade_type = "BUY" /\ RLe(R(candle.low), stop_loss)
    THEN Some(Exit(stop_loss, candle, "STOP_LOSS"))
    ELSE IF trade_type = "SELL" /\ RLe(stop_loss, R(candle.high))
    THEN Some(Exit(stop_loss, candle, "STOP_LOSS"))
    ELSE IF trade_type = "BUY" /\ RLe(take_profit, R(candle.high))
    THEN Some(Exit(take_profit, candle, "TAKE_PROFIT"))
    ELSE IF trade_type = "SELL" /\ RLe(R(candle.low), take_profit)
    THEN Some(Exit(take_profit, candle, "TAKE_PROFIT"))
    ELSE None

\* the loop of lines 224-253: the first candle that gives an exit, else the
\* last candle's close, else (no candle at all) None
FindExit(sig, future_data) ==
    LET exits == {k \in 1..Len(future_data) :
                    ~IsNone(ExitAt(future_data[k], sig.signal_type, sig.stop_loss, sig.take_profit))}
        first == CHOOSE k \in exits : \A j \in exits : k <= j
    IN  IF exits # {}
        THEN ExitAt(future_data[first], sig.signal_type, sig.stop_loss, sig.take_profit)
        ELSE IF future_data # <<>>
        THEN Some(Exit(R(future_data[Len(future_data)].close),
                       future_data[Len(future_data)], "TIMEOUT"))
        ELSE None

\* position_size = risk_amount / stop_distance and pnl = (exit_price -
\* entry_price) * position_size are two rounded float operations: where the stop
\* distance is not a dyadic rational the product can come out one step below
\* or above the exact value, or on it.  `rounding` is that outcome, -1, 0 or 1,
\* and PnlStep stands for the step, a fraction of the exact value.
PnlStep == Rat(1, 8)

PnlRoundingOutcomes(sig) ==
    IF Raised(sig) THEN {0}
    ELSE IF sig.signal_type \notin {"BUY", "SELL"} THEN {0}
    ELSE IF IsPowerOfTwo(RSub(sig.entry_price, sig.stop_loss).d) THEN {0}
    ELSE {-1, 0, 1}

\* BacktestingTool._simulate_trade: None or the TradeResult
simulate_trade(entry_candle, sig, position_size, future_data, rounding) ==
    LET found == FindExit(sig, future_data) IN
    IF IsNone(found) THEN None
    ELSE
    LET exit == Val(found)
        exact == IF sig.signal_type = "BUY"
                 THEN RMul(RSub(exit.exit_price, sig.entry_price), position_size)
                 ELSE RMul(RSub(sig.entry_price, exit.exit_price), position_size)
        pnl == RMul(exact, RAdd(R(1), RMul(R(rounding), PnlStep)))
        pnl_percent == RMul(RDiv(pnl, RMul(sig.entry_price, position_size)), R(100))
    IN  Some([symbol |-> entry_candle.symbol, timeframe |-> entry_candle.timeframe,
              entry_time |-> entry_candle.timestamp, exit_time |-> Some(exit.exit_time),
              entry_price |-> sig.entry_price, exit_price |-> Some(exit.exit_price),
              position_size |-> position_size, trade_type |-> sig.signal_type,
              status |-> "CLOSED", pnl |-> Some(pnl), pnl_percent |-> Some(pnl_percent),
              stop_loss |-> sig.stop_loss, take_profit |-> sig.take_profit,
              patterns_detected |-> sig.wyckoff_patterns \o sig.smc_patterns,
              confluence_score |-> sig.confluence_score,
              wyckoff_signals |-> sig.wyckoff_patterns, smc_signals |-> sig.smc_patterns,
              risk_reward_ratio |-> sig.risk_reward_ratio,
              hold_time_hours |-> Some(R(exit.exit_time - entry_candle.timestamp)),
              trade_notes |-> [exit |-> exit.exit_reason, confluence |-> sig.confluence_score]])

\* a mutation of lines 168-171: the confluence score is not tested
MeetsCriteria_without_score(sig, min_confluence_score, min_risk_reward) ==
    /\ sig.signal_type \in {"BUY", "SELL"}
    /\ RLe(min_risk_reward, sig.risk_reward_ratio)

\* the acceptance test of lines 168-171
MeetsCriteria(sig, min_confluence_score, min_risk_reward) ==
    /\ sig.signal_type \in {"BUY", "SELL"}
    /\ RLe(min_confluence_score, sig.confluence_score)
    /\ RLe(min_risk_reward, sig.risk_reward_ratio)

\* a position that risks the whole risk_amount per unit of price
position_size_per_unit(risk_amount, stop_distance) ==
    IF RLt(Zero, stop_distance) THEN risk_amount ELSE Zero

\* position_size = risk_amount / stop_distance if stop_distance > 0 else 0
position_size(risk_amount, stop_distance) ==
    IF RLt(Zero, stop_distance) THEN RDiv(risk_amount, stop_distance) ELSE Zero

\* one pass of the sliding-window loop (lines 158-189) at index run.i, the
\* analysis having returned sig
BacktestIteration(run, ohlc, sig, pnl_rounding) ==
    LET current_window == Slice(ohlc, run.i - window_size, run.i + 1)
        current_price == R(current_window[Len(current_window)].close)
        risk_per_trade == ConfigGet(run.config, "risk_per_trade", default_risk_per_trade)
        min_risk_reward == ConfigGet(run.config, "min_risk_reward", default_min_risk_reward)
        min_confluence_score ==
            ConfigGet(run.config, "min_confluence_score", default_min_confluence_score)
        risk_amount == RMul(run.account_balance, risk_per_trade)
        stop_distance == RAbs(RSub(current_price, sig.stop_loss))
        size == position_size(risk_amount, stop_distance)
        trade == simulate_trade(current_window[Len(current_window)], sig, size,
                                Slice(ohlc, run.i + 1, run.i + 1 + MaxHoldBars), pnl_rounding)
    IN  IF /\ MeetsCriteria(sig, min_confluence_score, min_risk_reward)
           /\ RLt(Zero, size)
           /\ ~IsNone(trade)
        THEN [run EXCEPT !.trades = Append(@, Val(trade)),
                         !.account_balance =
                             RAdd(@, IF Truthy(Val(trade).pnl) THEN Val(Val(trade).pnl) ELSE Zero),
                         !.current_window = current_window,
                         !.i = @ + 1]
        ELSE [run EXCEPT !.current_window = current_window, !.i = @ + 1]

\* the BacktestResult of lines 192-208
BacktestResult(run, ohlc) ==
    [strategy_name |-> ConfigGet(run.config, "strategy_name", "Wyckoff_SMC_Strategy"),
     parameters |-> run.config,
     start_date |-> ohlc[1].timestamp, end_date |-> ohlc[Len(ohlc)].timestamp,
     total_trades |-> Len(run.trades),
     performance_metrics |-> calculate_basic_metrics(run.trades),
     trades |-> run.trades,
     confidence_score |-> Zero, parameter_stability |-> Zero,
     market_regime_performance |-> <<>>, statistical_significance |-> Zero,
     recommendation |-> "", detailed_analysis |-> ""]

\* _execute_backtest(strategy_config, ohlc_data) with no start_date and no
\* end_date, up to the loop (lines 137-157)
StartBacktest(config, ohlc) ==
    IF Len(ohlc) < MinBarsForBacktest
    THEN [pc |-> "done", config |-> config, result |-> None]
    ELSE [pc |-> "scan", config |-> config, i |-> window_size, trades |-> <<>>,
          current_window |-> <<>>,
          account_balance |-> ConfigGet(config, "initial_balance", default_initial_balance)]

ExecuteBacktestBegin(config) ==
    /\ bt.pc = "idle"
    /\ report.pc = "idle"
    /\ bt' = StartBacktest(config, ohlc_data)
    /\ UNCHANGED <<ohlc_data, technical_indicators, signal,
                   metricsVars, learningVars, toolVars, report, call>>

\* one iteration of `for i in range(window_size, len(ohlc_data) - 10)`: signal
\* is the loop's confluence_signal; an exception of the analysis leaves
\* _execute_backtest at window i, its trades list lost with its frame
ExecuteBacktestStep ==
    /\ bt.pc = "scan"
    /\ bt.i < Len(ohlc_data) - ScanMargin
    /\ LET current_window == Slice(ohlc_data, bt.i - window_size, bt.i + 1) IN
       \E rounding \in RoundingOutcomes(current_window) :
           signal' = Some(analyze_confluence(current_window,
                                             get_technical_indicators(current_window),
                                             rounding))
    /\ \E pnl_rounding \in PnlRoundingOutcomes(Val(signal')) :
           bt' = IF Raised(Val(signal'))
                 THEN [pc |-> "raised", config |-> bt.config, i |-> bt.i,
                       error |-> Val(signal').raised]
                 ELSE BacktestIteration(bt, ohlc_data, Val(signal'), pnl_rounding)
    /\ UNCHANGED <<ohlc_data, technical_indicators, metricsVars, learningVars, toolVars,
                   report, call>>

\* the loop is over: lines 191-208
ExecuteBacktestFinish ==
    /\ bt.pc = "scan"
    /\ bt.i >= Len(ohlc_data) - ScanMargin
    /\ bt' = [pc |-> "done", config |-> bt.config,
              result |-> Some(BacktestResult(bt, ohlc_data))]
    /\ UNCHANGED <<ohlc_data, technical_indicators, signal,
                   metricsVars, learningVars, toolVars, report, call>>

----------------------------------------------------------------------------
(* The backtest driven on a family of bar series: 101 bars that end in a
   breakout (or breakdown) the engine signals on, then quiet bars at the new
   level, one of which may reach far up, far down or both ways.  A bar of very
   high volume early in the series ends the signal once the sliding window's
   first twenty bars take it in, `persist` bars after the first signal. *)

MaxPersist == 1
MaxBacktestBars == 162

HeavyBar(level) == OHLCData(0, level, level + 1, level - 1, level, 2000)

ResolutionKinds == {"none", "up", "down", "both"}

ResolutionBar(level, kind, volume) ==
    OHLCData(0, level,
             level + (IF kind \in {"up", "both"} THEN 14 ELSE 1),
             level - (IF kind \in {"down", "both"} THEN 14 ELSE 1),
             level, volume)

SignalBars(direction, persist) ==
    LET event == EventBar(200, IF direction = "BUY" THEN "buying" ELSE "selling")
        final == FinalBar(event.close, IF direction = "BUY" THEN "breakout" ELSE "breakdown", 130)
    IN  Quiet(20 + persist, 200, 100) \o <<HeavyBar(200)>> \o Quiet(59 - persist, 200, 100)
          \o <<event>> \o Quiet(19, event.close, 130) \o <<final>>

\* n bars; the far-reaching bar, if any, is the last one a trade can be entered on
BacktestSeries(direction, persist, resolution, n) ==
    LET head == SignalBars(direction, persist)
        level == head[Len(head)].close
        tail == [k \in 1..(IF n > 101 THEN n - 101 ELSE 0) |->
                    IF 100 + k = n - ScanMargin - 1 /\ resolution # "none"
                    THEN ResolutionBar(level, resolution, 50)
                    ELSE OHLCData(0, level, level + 1, level - 1, level, 50)]
    IN  Stamp(FirstN(head \o tail, n))

\* too few bars to backtest; a few bars after the signal, every resolution;
\* a signal that persists, unresolved or resolved both ways; more bars after
\* the signal than a trade is held; and bars that never move
BacktestSeriesInputs ==
    {BacktestSeries("BUY", 0, "none", 99)}
    \cup {BacktestSeries(direction, 0, resolution, 115) :
              direction \in {"BUY", "SELL"}, resolution \in ResolutionKinds}
    \cup {BacktestSeries(direction, persist, resolution, 115) :
              direction \in {"BUY", "SELL"}, persist \in 1..MaxPersist,
              resolution \in {"none", "both"}}
    \cup {BacktestSeries(direction, 0, resolution, MaxBacktestBars) :
              direction \in {"BUY", "SELL"}, resolution \in {"none", "both"}}
    \cup {Stamp(Quiet(120, 200, 100))}

ConfigInputs ==
    {<<>>,
     [min_confluence_score |-> R(95)],
     [min_risk_reward |-> R(4)],
     [min_confluence_score |-> R(60), min_risk_reward |-> R(2)],
     [initial_balance |-> R(1000), risk_per_trade |-> Rat(1, 100)]}

InitBacktest ==
    /\ trades = <<>>
    /\ metrics = None
    /\ confluence_weights = InitialWeights
    /\ optimization_history = <<>>
    /\ pattern_reliability_scores = <<>>
    /\ le_call = None
    /\ trades_database = <<>>
    /\ last_add = None
    /\ ohlc_data \in BacktestSeriesInputs
    /\ technical_indicators = <<>>
    /\ signal = None
    /\ bt = [pc |-> "idle"]
    /\ report = [pc |-> "idle"]
    /\ call = None

NextBacktest ==
    \/ \E config \in ConfigInputs : ExecuteBacktestBegin(config)
    \/ ExecuteBacktestStep
    \/ ExecuteBacktestFinish

SpecBacktest == InitBacktest /\ [][NextBacktest]_vars

----------------------------------------------------------------------------
(* A claim about the streak counts, checked under SpecMetrics *)

\* C30: in every bundle calculate_basic_metrics computes, from trade lists with
\* a pnl of exactly 0 too, max_consecutive_wins <= winning_trades and
\* max_consecutive_losses <= losing_trades.
C30_StreaksWithinCounts ==
    ~IsNone(metrics) =>
        /\ Val(metrics).max_consecutive_wins <= Val(metrics).winning_trades
        /\ Val(metrics).max_consecutive_losses <= Val(metrics).losing_trades

----------------------------------------------------------------------------
(* Claims about the learning engine, checked under SpecLearning *)

InUnitInterval(x) == RLe(Zero, x) /\ RLe(x, R(1))

\* C6: after any analyze_confluence_effectiveness call with 10 or more trades
\* the call returns (without a division by zero) four weights that each lie in
\* [0,1] and that sum to 1, and they are the engine's weights.
C6_WeightsNormalised ==
    (~IsNone(le_call) /\ Len(Val(le_call).args) >= 10) =>
        LET w == Val(le_call).returned IN
        /\ ~Raised(w)
        /\ DOMAIN w = {"wyckoff_weight", "smc_weight", "technical_weight", "pattern_weight"}
        /\ \A k \in DOMAIN w : InUnitInterval(w[k])
        /\ RAdd(RAdd(w.wyckoff_weight, w.smc_weight),
                RAdd(w.technical_weight, w.pattern_weight)) = R(1)
        /\ confluence_weights = w

\* a call with 10 or more trades, every one of them a loser in each signal
\* family, so that only the technical baseline keeps the denominator positive
C6_Witness ==
    /\ ~IsNone(le_call)
    /\ Len(Val(le_call).args) >= 10
    /\ ~Raised(Val(le_call).returned)
    /\ Val(le_call).returned.technical_weight = R(1)
    /\ Val(le_call).returned.wyckoff_weight = Zero

C7_InitialWeights ==
    [wyckoff_weight |-> Rat(2, 5), smc_weight |-> Rat(3, 10),
     technical_weight |-> Rat(1, 5), pattern_weight |-> Rat(1, 10)]

C7_Chained ==
    /\ \A k \in 1..Len(optimization_history) :
          optimization_history[k].old_weights =
              IF k = 1 THEN C7_InitialWeights
              ELSE optimization_history[k - 1].new_weights
    /\ confluence_weights =
          IF optimization_history = <<>> THEN C7_InitialWeights
          ELSE optimization_history[Len(optimization_history)].new_weights

C7_AppendOnly ==
    /\ Len(optimization_history') >= Len(optimization_history)
    /\ SubSeq(optimization_history', 1, Len(optimization_history)) = optimization_history
    /\ confluence_weights' # confluence_weights =>
          Len(optimization_history') = Len(optimization_history) + 1

\* C7: over any sequence of engine calls the optimization history only grows at
\* its end, each entry's old_weights are the preceding entry's new_weights (the
\* initial 0.40/0.30/0.20/0.10 for the first), the current weights are the last
\* entry's new_weights, and the weights change only in a step that appends.
C7_HistoryChain == []C7_Chained /\ [][C7_AppendOnly]_vars

\* two optimisations that installed different weights
C7_Witness ==
    /\ Len(optimization_history) = 2
    /\ optimization_history[1].new_weights # optimization_history[2].new_weights
    /\ optimization_history[1].new_weights # C7_InitialWeights
    /\ pattern_reliability_scores # <<>>

\* a step in which analyze_confluence_effectiveness was called with fewer than
\* 10 trades
C22_ShortCall ==
    /\ ~IsNone(le_call')
    /\ le_call' # le_call
    /\ Len(Val(le_call').args) < 10

\* C22: analyze_confluence_effectiveness called with fewer than 10 trades is a
\* no-op: it returns the engine's current weights and leaves the weights, the
\* optimization history and the pattern reliability scores unchanged.
C22_ShortCallIsNoOp ==
    [][C22_ShortCall =>
          /\ Val(le_call').returned = confluence_weights
          /\ confluence_weights' = confluence_weights
          /\ optimization_history' = optimization_history
          /\ pattern_reliability_scores' = pattern_reliability_scores]_vars

\* a call with nine trades on an engine that has optimized before: it answers
\* with the weights that optimization installed
C22_Witness ==
    /\ ~IsNone(le_call)
    /\ Len(Val(le_call).args) = 9
    /\ Len(optimization_history) = 1
    /\ confluence_weights # C7_InitialWeights
    /\ Val(le_call).returned = confluence_weights
    /\ pattern_reliability_scores # <<>>

----------------------------------------------------------------------------
(* Claims about trade recording, checked under SpecTool *)

\* C8: the learning engine's optimization step is invoked by exactly those
\* add_trade calls that bring the number of CLOSED trades to a positive multiple
\* of recalibration_frequency (5); adding an OPEN trade never invokes it.
C8_RecalibrationExactlyEveryFifthClosed ==
    (~IsNone(last_add) /\ Val(last_add).added) =>
        (Val(last_add).optimized <=>
            /\ Val(last_add).status = "CLOSED"
            /\ Val(last_add).closed > 0
            /\ Val(last_add).closed % 5 = 0)

\* C8, its last part alone: adding an OPEN trade never invokes the step
C8_OpenNeverOptimizes ==
    (~IsNone(last_add) /\ Val(last_add).status = "OPEN") => ~Val(last_add).optimized

----------------------------------------------------------------------------
(* Claims about the performance calculator, checked under SpecMetrics *)

Qualifies(t) == t.status = "CLOSED" /\ ~IsNone(t.pnl)
NoneQualifies(ts) == \A i \in 1..Len(ts) : ~Qualifies(ts[i])

C9_AllZero ==
    [total_trades |-> 0, winning_trades |-> 0, losing_trades |-> 0,
     win_rate |-> Zero, profit_factor |-> Zero, total_pnl |-> Zero,
     total_pnl_percent |-> Zero, avg_win |-> Zero, avg_loss |-> Zero,
     largest_win |-> Zero, largest_loss |-> Zero,
     max_consecutive_wins |-> 0, max_consecutive_losses |-> 0,
     max_drawdown |-> Zero, max_drawdown_percent |-> Zero,
     sharpe_ratio |-> Zero, sortino_ratio |-> Zero, calmar_ratio |-> Zero,
     avg_trade_duration_hours |-> Zero, avg_risk_reward |-> Zero,
     expectancy |-> Zero, recovery_factor |-> Zero,
     profit_factor_by_asset |-> <<>>, performance_by_timeframe |-> <<>>]

\* C9: for an empty trade list and for a non-empty list in which no trade is
\* CLOSED with a non-null pnl, calculate_basic_metrics returns the bundle whose
\* every count (total_trades included), ratio and sum is 0 and whose two
\* breakdown maps are empty.
C9_AllZeroWhenNoneQualifies ==
    (~IsNone(metrics) /\ NoneQualifies(trades)) => Val(metrics) = C9_AllZero

RECURSIVE C10_Gross(_, _)
C10_Gross(ts, sign) ==
    IF ts = <<>> THEN Zero
    ELSE LET t == ts[1]
             v == IF Qualifies(t) /\ RLt(Zero, RMul(R(sign), Val(t.pnl)))
                  THEN RMul(R(sign), Val(t.pnl)) ELSE Zero
         IN  RAdd(v, C10_Gross(Tail(ts), sign))

\* C10: profit_factor is gross_profit/gross_loss when gross_loss > 0, +infinity
\* when gross_loss = 0 and gross_profit > 0, and 0 when gross_profit = 0 (also
\* when gross_loss is 0 too).
C10_ProfitFactor ==
    ~IsNone(metrics) =>
        LET gross_profit == C10_Gross(trades, 1)
            gross_loss == C10_Gross(trades, -1)
        IN  Val(metrics).profit_factor =
               IF IsZero(gross_profit) THEN Zero
               ELSE IF IsZero(gross_loss) THEN Inf
               ELSE RDiv(gross_profit, gross_loss)

----------------------------------------------------------------------------
(* Claims about the confluence engine, checked under SpecConfluence *)

\* C1: analyze_confluence never raises, whatever the number of bars, and its
\* result is the NEUTRAL signal of score 0 whenever there are fewer than 20 bars
\* or fewer than the 100 bars the Wyckoff phase classification needs.
C1_NeverRaisesSentinelWhenShort ==
    ~IsNone(signal) =>
        /\ ~Raised(Val(signal))
        /\ Len(ohlc_data) < 100 =>
               /\ Val(signal).signal_type = "NEUTRAL"
               /\ Val(signal).confluence_score = Zero

\* C1, its first sentence alone: with 100 bars or more no exception either
C1_NeverRaisesWithFullHistory ==
    (~IsNone(signal) /\ Len(ohlc_data) >= 100) => ~Raised(Val(signal))

\* C2: every signal analyze_confluence returns has a confluence_score between 0
\* and 100, and is NEUTRAL whenever that score is below 60.
C2_ScoreBoundedNeutralBelowThreshold ==
    (~IsNone(signal) /\ ~Raised(Val(signal))) =>
        /\ RLe(Zero, Val(signal).confluence_score)
        /\ RLe(Val(signal).confluence_score, R(100))
        /\ RLt(Val(signal).confluence_score, R(60)) => Val(signal).signal_type = "NEUTRAL"

\* a BUY signal whose every contribution was added (phase, institutional
\* activity, structure shift, order flow, RSI and MACD: 108.5 points) and whose
\* score is 100
C2_Witness ==
    /\ ~IsNone(signal)
    /\ ~Raised(Val(signal))
    /\ Val(signal).signal_type = "BUY"
    /\ Val(signal).confluence_score = R(100)
    /\ Len(Val(signal).wyckoff_patterns) = 2
    /\ Len(Val(signal).smc_patterns) = 2
    /\ Len(Val(signal).supporting_indicators) = 2

----------------------------------------------------------------------------
(* Claims about the backtest, checked under SpecBacktest *)

\* the trade list of the run: while the scan goes on, and in the result
BacktestTrades ==
    IF bt.pc = "scan" THEN bt.trades
    ELSE IF bt.pc = "done" /\ ~IsNone(bt.result) THEN Val(bt.result).trades
    ELSE <<>>

\* C3: no two trades of one backtest run overlap: the trade entered later is
\* entered no earlier than the trade entered before it was exited.
C3_NoOverlappingTrades ==
    \A i, j \in 1..Len(BacktestTrades) :
        i < j => BacktestTrades[j].entry_time >= Val(BacktestTrades[i].exit_time)

\* the bars a trade's simulation scans: the (at most 50) bars after its entry bar
C4_Scanned(t) == {k \in 1..Len(ohlc_data) : t.entry_time < k /\ k <= t.entry_time + 50}

C4_CrossesStop(t, k) ==
    IF t.trade_type = "BUY" THEN RLe(R(ohlc_data[k].low), t.stop_loss)
    ELSE RLe(t.stop_loss, R(ohlc_data[k].high))

C4_CrossesTarget(t, k) ==
    IF t.trade_type = "BUY" THEN RLe(t.take_profit, R(ohlc_data[k].high))
    ELSE RLe(R(ohlc_data[k].low), t.take_profit)

\* C4: a trade exits at the first scanned bar that crosses its stop or its
\* target, at the stop when that bar crosses the stop (also when it crosses
\* both, for BUY and SELL alike) and at the target otherwise; when no scanned
\* bar crosses either, it exits at the close of the last scanned bar.
C4_ExitAtFirstCrossingStopFirst ==
    \A i \in 1..Len(BacktestTrades) :
        LET t == BacktestTrades[i]
            crossing == {k \in C4_Scanned(t) : C4_CrossesStop(t, k) \/ C4_CrossesTarget(t, k)}
            first == CHOOSE k \in crossing : \A j \in crossing : k <= j
            last == CHOOSE k \in C4_Scanned(t) : \A j \in C4_Scanned(t) : j <= k
        IN  IF crossing # {}
            THEN /\ Val(t.exit_time) = first
                 /\ Val(t.exit_price) = IF C4_CrossesStop(t, first) THEN t.stop_loss
                                        ELSE t.take_profit
            ELSE /\ Val(t.exit_time) = last
                 /\ Val(t.exit_price) = R(ohlc_data[last].close)

\* a trade whose exit bar crosses both its stop and its target, exited at the stop
C4_Witness ==
    \E i \in 1..Len(BacktestTrades) :
        LET t == BacktestTrades[i] IN
        /\ C4_CrossesStop(t, Val(t.exit_time))
        /\ C4_CrossesTarget(t, Val(t.exit_time))
        /\ Val(t.exit_price) = t.stop_loss

\* a trade that no scanned bar ended: held for the 50 bars, closed at the last
C4_TimeoutWitness ==
    \E i \in 1..Len(BacktestTrades) :
        LET t == BacktestTrades[i] IN
        /\ Val(t.exit_time) = t.entry_time + 50
        /\ ~C4_CrossesStop(t, Val(t.exit_time))
        /\ ~C4_CrossesTarget(t, Val(t.exit_time))

C5_Threshold(key, default) ==
    IF key \in DOMAIN bt.config THEN bt.config[key] ELSE default

\* C5: every trade of a backtest is a BUY or a SELL whose confluence_score is
\* at least min_confluence_score (70 when the config has none), whose
\* risk_reward_ratio is at least min_risk_reward (3 when the config has none)
\* and whose position size is positive.
C5_TradesMeetCriteria ==
    \A i \in 1..Len(BacktestTrades) :
        LET t == BacktestTrades[i] IN
        /\ t.trade_type \in {"BUY", "SELL"}
        /\ RLe(C5_Threshold("min_confluence_score", R(70)), t.confluence_score)
        /\ RLe(C5_Threshold("min_risk_reward", R(3)), t.risk_reward_ratio)
        /\ RLt(Zero, t.position_size)
        /\ t.stop_loss # t.entry_price

\* a finished backtest under the default thresholds with a trade in its result
C5_Witness ==
    /\ bt.pc = "done"
    /\ bt.config = <<>>
    /\ ~IsNone(bt.result)
    /\ Val(bt.result).total_trades > 0

----------------------------------------------------------------------------
(* Claims about numeric edge cases of the confluence engine, checked under
   SpecConfluence *)

\* C11: no core computation raises a division-by-zero fault on degenerate
\* numeric input; in particular the Wyckoff phase classification of 100 or more
\* bars whose closes are all equal returns normally.
C11_NoDivisionByZero ==
    ~IsNone(signal) =>
        ~(Raised(Val(signal)) /\ Val(signal).raised = "ZeroDivisionError")

----------------------------------------------------------------------------
(* Claims about a failing window of the backtest, checked under SpecBacktest *)

\* C12: a confluence analysis that raises on one window does not end the
\* backtest: the windows after it are still evaluated, so the scan is left by
\* an exception only when no window remains.
C12_BadWindowDoesNotAbort ==
    bt.pc = "raised" => bt.i + 1 >= Len(ohlc_data) - ScanMargin

----------------------------------------------------------------------------
(* BacktestingTool._calculate_statistical_significance (back_testing_tool.py) *)

MinTradesForSignificance == 10
NormalApproximationAbove == 30

\* t.pnl and t.pnl > 0
IsWin(t) == ~IsNone(t.pnl) /\ RLt(Zero, Val(t.pnl))

\* the square of z_score = (actual_wins - expected_wins) / sqrt(len(trades) * 0.25)
z_score_squared(actual_wins, total) ==
    LET twice == R(2 * actual_wins - total)
    IN  RDiv(RMul(twice, twice), R(total))

\* np.tanh(abs(z_score) * sqrt(2 / pi)): 0 at 0, otherwise a float in (0, 1];
\* the points stand for that interval, both of its ends included
TanhOutcomes(z_squared) ==
    IF IsZero(z_squared) THEN {Zero}
    ELSE {Rat(1, 1000), Rat(1, 2), Rat(9999, 10000), R(1)}

\* _normal_cdf, the hyperbolic tangent given
normal_cdf(tanh) == RMul(Rat(1, 2), RAdd(R(1), tanh))

\* a mutation of line 358: the confidence returned as computed
clamp_confidence_unclamped(confidence) == confidence

\* min(99.9, max(0, confidence))
clamp_confidence(confidence) == RMin(Rat(999, 10), RMax(Zero, confidence))

calculate_statistical_significance(ts, tanh) ==
    IF Len(ts) < MinTradesForSignificance THEN Zero
    ELSE
    LET wins == SelectSeq(ts, IsWin)
        win_rate == Rat(Len(wins), Len(ts))
        confidence ==
            IF Len(ts) > NormalApproximationAbove
            THEN RMul(RSub(R(1), RMul(R(2), RSub(R(1), normal_cdf(tanh)))), R(100))
            ELSE RMax(Zero, RMul(RSub(win_rate, Rat(1, 2)), R(200)))
    IN  clamp_confidence(confidence)

----------------------------------------------------------------------------
(* The significance test driven on lists of up to MaxSignificanceTrades trades:
   winners, then trades without a pnl, then losers *)

MaxSignificanceTrades == 31

SignificanceTrades(total, wins, blanks) ==
    Repeat(TradeResult("CLOSED", Some(R(100)), Some(R(1)), "EURUSD", R(75), <<>>, <<>>, <<>>), wins)
      \o Repeat(TradeResult("CLOSED", None, None, "EURUSD", R(75), <<>>, <<>>, <<>>), blanks)
      \o Repeat(TradeResult("CLOSED", Some(R(-50)), Some(R(-1)), "EURUSD", R(75), <<>>, <<>>, <<>>),
                total - wins - blanks)

SignificanceTradeInputs ==
    UNION {{SignificanceTrades(total, wins, 0) : wins \in 0..total} : total \in 0..MaxSignificanceTrades}
    \cup {SignificanceTrades(total, total - 1, 1) : total \in 1..MaxSignificanceTrades}

\* significance = self._calculate_statistical_significance(trades)
CalculateStatisticalSignificance ==
    /\ IsNone(call)
    /\ \E tanh \in TanhOutcomes(IF trades = <<>> THEN Zero
                                ELSE z_score_squared(Len(SelectSeq(trades, IsWin)), Len(trades))) :
           call' = Some([op |-> "_calculate_statistical_significance",
                         result |-> calculate_statistical_significance(trades, tanh)])
    /\ UNCHANGED <<trades, metrics, learningVars, toolVars, engineVars, bt, report>>

InitSignificance ==
    /\ trades \in SignificanceTradeInputs
    /\ metrics = None
    /\ confluence_weights = InitialWeights
    /\ optimization_history = <<>>
    /\ pattern_reliability_scores = <<>>
    /\ le_call = None
    /\ trades_database = <<>>
    /\ last_add = None
    /\ ohlc_data = <<>>
    /\ technical_indicators = <<>>
    /\ signal = None
    /\ bt = [pc |-> "idle"]
    /\ report = [pc |-> "idle"]
    /\ call = None

NextSignificance == CalculateStatisticalSignificance

SpecSignificance == InitSignificance /\ [][NextSignificance]_vars

----------------------------------------------------------------------------
(* Claims about the significance test, checked under SpecSignificance *)

\* C20: _calculate_statistical_significance returns a value between 0 and 99.9
\* for every trade list, and exactly 0 for every list of fewer than 10 trades.
C20_SignificanceBounded ==
    ~IsNone(call) =>
        /\ RLe(Zero, Val(call).result)
        /\ RLe(Val(call).result, Rat(999, 10))
        /\ Len(trades) < 10 => Val(call).result = Zero

\* thirty trades, every one a winner: (1 - 0.5) * 200 = 100, returned as 99.9
C20_Witness ==
    /\ ~IsNone(call)
    /\ Len(trades) = 30
    /\ \A i \in 1..Len(trades) : IsWin(trades[i])
    /\ Val(call).result = Rat(999, 10)

\* C19: every signal the engine returns has risk_reward_ratio exactly 3 when it
\* is BUY or SELL with a non-zero ATR, and exactly 0 when it is NEUTRAL or the
\* stop distance is zero; no other ratio occurs.
C19_RiskRewardExactlyThree ==
    (~IsNone(signal) /\ ~Raised(Val(signal))) =>
        LET sig == Val(signal)
        IN  IF sig.signal_type \in {"BUY", "SELL"} /\ sig.stop_loss # sig.entry_price
            THEN sig.risk_reward_ratio = R(3)
            ELSE sig.risk_reward_ratio = Zero

----------------------------------------------------------------------------
(* BacktestingTool._analyze_market_regimes (back_testing_tool.py) *)

regime_window_size == 50
regime_stride == 25
TradingDaysPerYear == 252

\* [(closes[j] - closes[j-1]) / closes[j-1] for j in range(1, len(closes))]
Returns(closes) ==
    [j \in 1..(Len(closes) - 1) |-> Rat(closes[j + 1] - closes[j], closes[j])]

\* the sum of xs[a..b], by halves
RECURSIVE RSumRange(_, _, _)
RSumRange(xs, a, b) ==
    IF a > b THEN Zero
    ELSE IF a = b THEN xs[a]
    ELSE RAdd(RSumRange(xs, a, (a + b) \div 2), RSumRange(xs, ((a + b) \div 2) + 1, b))

\* np.mean of a non-empty list
NpMean(xs) == RDiv(RSumRange(xs, 1, Len(xs)), R(Len(xs)))

\* np.std(xs) squared: the mean of the squared deviations from the mean
PopulationVariance(xs) ==
    LET mean == NpMean(xs)
    IN  NpMean([j \in 1..Len(xs) |-> RMul(RSub(xs[j], mean), RSub(xs[j], mean))])

\* (np.std(returns) * np.sqrt(252)) squared; the volatility itself is its
\* non-negative root, so volatility > 0.3 exactly when this exceeds 0.09
volatility_squared(closes) == RMul(PopulationVariance(Returns(closes)), R(TradingDaysPerYear))

trend_return(closes) == Rat(closes[Len(closes)] - closes[1], closes[1])

\* Classify regime (lines 317-324)
classify_regime(closes) ==
    IF RLt(Rat(9, 100), volatility_squared(closes)) THEN "HIGH_VOLATILITY"
    ELSE IF RLt(RAbs(trend_return(closes)), Rat(5, 100)) THEN "SIDEWAYS"
    ELSE IF RLt(Rat(5, 100), trend_return(closes)) THEN "TRENDING_UP"
    ELSE "TRENDING_DOWN"

MarketRegime(window) ==
    [regime_type |-> classify_regime(Closes(window)),
     start_date |-> window[1].timestamp,
     end_date |-> window[Len(window)].timestamp,
     volatility_squared |-> volatility_squared(Closes(window)),
     trend_strength |-> RAbs(trend_return(Closes(window)))]

\* for i in range(window_size, len(ohlc_data), window_size // 2)
RegimeEnds(n) ==
    IF n <= regime_window_size THEN <<>>
    ELSE [k \in 1..(((n - 1 - regime_window_size) \div regime_stride) + 1) |->
              regime_window_size + (k - 1) * regime_stride]

analyze_market_regimes(ohlc) ==
    [k \in 1..Len(RegimeEnds(Len(ohlc))) |->
        MarketRegime(Slice(ohlc, RegimeEnds(Len(ohlc))[k] - regime_window_size,
                           RegimeEnds(Len(ohlc))[k]))]

----------------------------------------------------------------------------
(* The regime analysis driven on series that hold one level and then another *)

MaxRegimeBars == 101

RegimeLevels == {100, 180, 190, 191, 200, 209, 210, 220, 300}
RegimeLengths == {0, 49, 50, 51, 76, MaxRegimeBars}
RegimeSteps == {0, 10, 25, 30, 49, 60, 75}

RegimeSeries(n, k, level) ==
    Stamp(Quiet(IF k < n THEN k ELSE n, 200, 100) \o Quiet(IF k < n THEN n - k ELSE 0, level, 100))

RegimeSeriesInputs ==
    {RegimeSeries(n, k, level) : n \in RegimeLengths, k \in RegimeSteps, level \in RegimeLevels}

\* regimes = self._analyze_market_regimes(historical_data)
AnalyzeMarketRegimes ==
    /\ IsNone(call)
    /\ call' = Some([op |-> "_analyze_market_regimes",
                     result |-> analyze_market_regimes(ohlc_data)])
    /\ UNCHANGED <<metricsVars, learningVars, toolVars, engineVars, bt, report>>

InitRegimes ==
    /\ trades = <<>>
    /\ metrics = None
    /\ confluence_weights = InitialWeights
    /\ optimization_history = <<>>
    /\ pattern_reliability_scores = <<>>
    /\ le_call = None
    /\ trades_database = <<>>
    /\ last_add = None
    /\ ohlc_data \in RegimeSeriesInputs
    /\ technical_indicators = <<>>
    /\ signal = None
    /\ bt = [pc |-> "idle"]
    /\ report = [pc |-> "idle"]
    /\ call = None

NextRegimes == AnalyzeMarketRegimes

SpecRegimes == InitRegimes /\ [][NextRegimes]_vars

----------------------------------------------------------------------------
(* Claims about the regime analysis, checked under SpecRegimes *)

\* the regime the description gives a window of closes: the trend named by the
\* sign of the net return
C16_Described(closes) ==
    IF RLt(Rat(9, 100), volatility_squared(closes)) THEN "HIGH_VOLATILITY"
    ELSE IF RLt(RAbs(trend_return(closes)), Rat(5, 100)) THEN "SIDEWAYS"
    ELSE IF RLt(Zero, trend_return(closes)) THEN "TRENDING_UP"
    ELSE "TRENDING_DOWN"

\* C16: every 50-bar window gets exactly one regime: HIGH_VOLATILITY if the
\* annualized volatility exceeds 0.3, otherwise SIDEWAYS if |net return| < 0.05,
\* otherwise TRENDING_UP for a positive net return and TRENDING_DOWN for a
\* negative one, a net return of exactly +0.05 or -0.05 included.
C16_RegimeBySign ==
    ~IsNone(call) =>
        \A k \in 1..Len(Val(call).result) :
            LET regime == Val(call).result[k]
                closes == Closes(SubSeq(ohlc_data, regime.start_date, regime.end_date))
            IN  /\ Len(closes) = 50
                /\ regime.regime_type = C16_Described(closes)

----------------------------------------------------------------------------
(* The dispatchers PerformanceAnalyticsTool._run, ._generate_report and
   BacktestingTool._run.  A returned string is the sequence of its pieces; a
   branch that hands over to a handler is recorded by the handler's name. *)

Text(pieces) == [kind |-> "text", text |-> pieces, handler |-> ""]
Handler(name) == [kind |-> "handler", text |-> <<>>, handler |-> name]

\* _get_available_actions
available_actions ==
    <<"analyze", ", ", "add_trade", ", ", "optimize", ", ", "report", ", ", "patterns", ", ",
      "real_time_monitor", ", ", "health_check", ", ", "predict_performance", ", ",
      "risk_analysis", ", ", "confluence_effectiveness", ", ", "set_alerts", ", ", "benchmark">>

\* the data argument: the empty string, text that is not JSON, a JSON list,
\* or a JSON object with or without a "type"
EmptyData == [json |-> "empty", type |-> None]
InvalidData == [json |-> "invalid", type |-> None]
ListData == [json |-> "list", type |-> None]
DictData(type) == [json |-> "dict", type |-> type]

\* _generate_report
generate_report(report_type) ==
    IF report_type = "comprehensive" THEN Handler("_generate_comprehensive_report")
    ELSE IF report_type = "summary" THEN Handler("_generate_summary_report")
    ELSE IF report_type = "optimization" THEN Handler("_optimize_system")
    ELSE Text(<<"Unknown report type: ", report_type>>)

\* except Exception as e (lines 107-108)
analytics_error(e) == Text(<<"Error in enhanced performance analytics: ", e>>)

\* json.loads(data) if data else {}, then the handler
with_json(data, handler) ==
    IF data.json = "invalid" THEN analytics_error("JSONDecodeError") ELSE Handler(handler)

\* PerformanceAnalyticsTool._run
analytics_run(action, data) ==
    IF action = "analyze" THEN Handler("_analyze_performance")
    ELSE IF action = "add_trade" THEN with_json(data, "_add_trade_result")
    ELSE IF action = "optimize" THEN Handler("_optimize_system")
    ELSE IF action = "report" THEN
        IF data.json = "empty" THEN generate_report("comprehensive")
        ELSE IF data.json = "invalid" THEN analytics_error("JSONDecodeError")
        ELSE IF data.json = "list" THEN analytics_error("AttributeError")
        ELSE generate_report(IF IsNone(data.type) THEN "comprehensive" ELSE Val(data.type))
    ELSE IF action = "patterns" THEN Handler("_analyze_patterns")
    ELSE IF action = "real_time_monitor" THEN Handler("_real_time_monitoring")
    ELSE IF action = "health_check" THEN Handler("_system_health_check")
    ELSE IF action = "predict_performance" THEN Handler("_predict_performance")
    ELSE IF action = "risk_analysis" THEN Handler("_risk_analysis")
    ELSE IF action = "confluence_effectiveness" THEN Handler("_analyze_confluence_effectiveness")
    ELSE IF action = "set_alerts" THEN with_json(data, "_configure_alerts")
    ELSE IF action = "benchmark" THEN with_json(data, "_benchmark_analysis")
    ELSE Text(<<"Unknown action: ", action, ". Available actions: ">> \o available_actions)

\* BacktestingTool._run
backtesting_run(strategy_config, historical_data, validation_type) ==
    IF strategy_config.json \in {"invalid", "empty"} \/ historical_data.json \in {"invalid", "empty"}
    THEN Text(<<"Backtesting error: ", "JSONDecodeError">>)
    ELSE IF validation_type = "comprehensive" THEN Handler("_run_comprehensive_backtest")
    ELSE IF validation_type = "parameter_optimization"
         THEN Text(<<"Parameter optimization backtest completed">>)
    ELSE IF validation_type = "regime_analysis" THEN Text(<<"Market regime analysis completed">>)
    ELSE IF validation_type = "quick" THEN Text(<<"Quick validation backtest completed">>)
    ELSE Text(<<"Unknown validation type: ", validation_type>>)

----------------------------------------------------------------------------
(* The dispatchers driven on known and unknown names *)

KnownActions ==
    {"analyze", "add_trade", "optimize", "report", "patterns", "real_time_monitor", "health_check",
     "predict_performance", "risk_analysis", "confluence_effectiveness", "set_alerts", "benchmark"}
KnownReportTypes == {"comprehensive", "summary", "optimization"}
KnownValidationTypes == {"quick", "comprehensive", "parameter_optimization", "regime_analysis"}

UnknownNames == {"", "Analyze", "ANALYZE", "delete", "weekly", "full"}

DataInputs ==
    {EmptyData, InvalidData, ListData, DictData(None)}
    \cup {DictData(Some(type)) : type \in KnownReportTypes \cup UnknownNames}

\* the handlers that change the tool's state are the actions AddTrade and Optimize
ChangesState(result) ==
    result.kind = "handler" /\ result.handler \in {"_add_trade_result", "_optimize_system"}

\* PerformanceAnalyticsTool()._run(action, data)
AnalyticsRun(action, data) ==
    /\ ~ChangesState(analytics_run(action, data))
    /\ call' = Some([op |-> "PerformanceAnalyticsTool._run", name |-> action, data |-> data,
                     other |-> EmptyData, result |-> analytics_run(action, data)])
    /\ UNCHANGED <<metricsVars, learningVars, toolVars, engineVars, bt, report>>

\* PerformanceAnalyticsTool()._generate_report(report_type)
GenerateReport(report_type) ==
    /\ ~ChangesState(generate_report(report_type))
    /\ call' = Some([op |-> "PerformanceAnalyticsTool._generate_report", name |-> report_type,
                     data |-> EmptyData, other |-> EmptyData,
                     result |-> generate_report(report_type)])
    /\ UNCHANGED <<metricsVars, learningVars, toolVars, engineVars, bt, report>>

\* BacktestingTool()._run(strategy_config, historical_data, validation_type),
\* the comprehensive run itself left to the actions of the report
BacktestingRun(strategy_config, historical_data, validation_type) ==
    /\ call' = Some([op |-> "BacktestingTool._run", name |-> validation_type,
                     data |-> strategy_config, other |-> historical_data,
                     result |-> backtesting_run(strategy_config, historical_data, validation_type)])
    /\ UNCHANGED <<metricsVars, learningVars, toolVars, engineVars, bt, report>>

NextDispatch ==
    \/ \E action \in KnownActions \cup UnknownNames, data \in DataInputs : AnalyticsRun(action, data)
    \/ \E report_type \in KnownReportTypes \cup UnknownNames : GenerateReport(report_type)
    \/ \E strategy_config \in {InvalidData, DictData(None)}, historical_data \in {InvalidData, DictData(None)},
          validation_type \in KnownValidationTypes \cup UnknownNames :
           BacktestingRun(strategy_config, historical_data, validation_type)

SpecDispatch == Init /\ [][NextDispatch]_vars

----------------------------------------------------------------------------
(* Claims about the dispatchers, checked under SpecDispatch *)

Contains(text, piece) == \E k \in 1..Len(text) : text[k] = piece

\* the call reached the branch for a name that is none of the known ones
C17_Unknown ==
    /\ ~IsNone(call)
    /\ \/ /\ Val(call).op = "PerformanceAnalyticsTool._run"
          /\ \/ Val(call).name \notin KnownActions
             \/ /\ Val(call).name = "report"
                /\ Val(call).data.json = "dict"
                /\ ~IsNone(Val(call).data.type)
                /\ Val(Val(call).data.type) \notin KnownReportTypes
       \/ /\ Val(call).op = "PerformanceAnalyticsTool._generate_report"
          /\ Val(call).name \notin KnownReportTypes
       \/ /\ Val(call).op = "BacktestingTool._run"
          /\ Val(call).name \notin KnownValidationTypes
          /\ Val(call).data.json = "dict"
          /\ Val(call).other.json = "dict"

C17_Alternatives ==
    IF Val(call).op = "BacktestingTool._run" THEN KnownValidationTypes
    ELSE IF Val(call).op = "PerformanceAnalyticsTool._run" /\ Val(call).name \notin KnownActions
    THEN KnownActions
    ELSE KnownReportTypes

\* C17: an unknown action, an unknown report type and an unknown validation
\* type are each answered, without raising, by a descriptive rejection message
\* that lists the valid alternatives.
C17_RejectionListsAlternatives ==
    C17_Unknown =>
        /\ Val(call).result.kind = "text"
        /\ \A name \in C17_Alternatives : Contains(Val(call).result.text, name)

----------------------------------------------------------------------------
(* The pattern detectors.  A detector's outcome is the list of its findings
   (a detector that returns one pattern or None gives a list of one or of none)
   or the exception it raised. *)

Found(findings) == [raised |-> "", findings |-> findings]
Fails(error) == [raised |-> error, findings |-> <<>>]

Finding(pattern, direction, confidence, start, end) ==
    [pattern |-> pattern, direction |-> direction, confidence |-> confidence,
     start |-> start, end |-> end]

\* if len(ohlc_data) < minimum
TooShort(ohlc, minimum) == Len(ohlc) < minimum

\* [candle.volume for candle in ohlc_data]
AllVolumes(ohlc) == [k \in 1..Len(ohlc) |-> ohlc[k].volume]

\* x < y * (permille / 1000) for whole x and y
BelowPermille(x, y, permille) == 1000 * x < permille * y
\* x > y * (permille / 1000) for whole x and y
AbovePermille(x, y, permille) == 1000 * x > permille * y

----------------------------------------------------------------------------
(* WyckoffAnalyzer (analyzers/wyckoff_analyzer.py) *)

MinBarsForPhase == 50
MinBarsForSpring == 30
ClimaxLookback == 20

\* np.mean(volumes[-20:]) if volumes[-1] > 0 else 1
climax_volume_avg(ohlc) ==
    IF ohlc[Len(ohlc)].volume > 0 THEN IntMean(LastN(AllVolumes(ohlc), ClimaxLookback)) ELSE R(1)

\* the indices i of range(20, len) with volumes[i] > volume_avg * 1.5 and a
\* close 2% below (sign = -1) or above (sign = 1) the close before
ClimaxCandidates(ohlc, sign) ==
    SelectSeq(Range(ClimaxLookback, Len(ohlc)),
              LAMBDA i : /\ RLt(RMul(climax_volume_avg(ohlc), Rat(15, 10)), R(At(ohlc, i).volume))
                         /\ IF sign < 0
                            THEN BelowPermille(At(ohlc, i).close, At(ohlc, i - 1).close, 980)
                            ELSE AbovePermille(At(ohlc, i).close, At(ohlc, i - 1).close, 1020))

\* the tests of the extreme: abs(level - extreme) / extreme < 0.02
TestCount(levels, extreme) ==
    Len(SelectSeq(levels, LAMBDA level : 100 * Abs(level - extreme) < 2 * extreme))

DetectPhase(ohlc, sign, pattern, phase) ==
    IF TooShort(ohlc, MinBarsForPhase) THEN Found(<<>>)
    ELSE
    LET candidates == ClimaxCandidates(ohlc, sign)
        levels == [k \in 1..Len(candidates) |->
                      IF sign < 0 THEN At(ohlc, candidates[k]).low ELSE At(ohlc, candidates[k]).high]
        extreme == IF sign < 0 THEN MinOf(levels) ELSE MaxOf(levels)
    IN  IF Len(candidates) < 3 THEN Found(<<>>)
        ELSE IF extreme = 0 THEN Fails("ZeroDivisionError")
        ELSE IF TestCount(levels, extreme) >= 3
        THEN Found(<<Finding(pattern, phase,
                             RMin(R(95), R(60 + TestCount(levels, extreme) * 10)),
                             At(ohlc, candidates[1]).timestamp, ohlc[Len(ohlc)].timestamp)>>)
        ELSE Found(<<>>)

detect_accumulation_phase(ohlc) == DetectPhase(ohlc, -1, "ACCUMULATION", "SELLING_CLIMAX_TESTED")
detect_distribution_phase(ohlc) == DetectPhase(ohlc, 1, "DISTRIBUTION", "BUYING_CLIMAX_TESTED")

\* min(lows[-20:])
support_level(ohlc) == MinOf(LastN(Lows(ohlc), ClimaxLookback))

\* the first i of range(len - 20, len) with lows[i] == support_level
support_index(ohlc) ==
    CHOOSE i \in (Len(ohlc) - ClimaxLookback)..(Len(ohlc) - 1) :
        /\ At(ohlc, i).low = support_level(ohlc)
        /\ \A j \in (Len(ohlc) - ClimaxLookback)..(i - 1) : At(ohlc, j).low # support_level(ohlc)

\* lows[i] < support_level * 0.995 and closes[i] > support_level
IsSpring(ohlc, i) ==
    /\ BelowPermille(At(ohlc, i).low, support_level(ohlc), 995)
    /\ At(ohlc, i).close > support_level(ohlc)

detect_spring(ohlc) ==
    IF TooShort(ohlc, MinBarsForSpring) THEN Found(<<>>)
    ELSE
    LET breaks == SelectSeq(Range(support_index(ohlc) + 1, Len(ohlc)),
                            LAMBDA i : IsSpring(ohlc, i))
    IN  IF breaks = <<>> THEN Found(<<>>)
        ELSE Found(<<Finding("SPRING", "SPRING_DETECTED",
                             IF RLt(R(At(ohlc, breaks[1]).volume), IntMean(LastN(AllVolumes(ohlc), 10)))
                             THEN R(85) ELSE R(75),
                             At(ohlc, support_index(ohlc)).timestamp,
                             At(ohlc, breaks[1]).timestamp)>>)

----------------------------------------------------------------------------
(* SMCAnalyzer (analyzers/smc_analyzer.py) *)

MinBarsForOrderBlock == 20
MinBarsForGap == 3
MinBarsForSweep == 20

\* confidence = 70, += 15 on volume above 1.5 times the mean of the five bars before
OrderBlockConfidence(ohlc, i) ==
    IF RLt(RMul(IntMean(AllVolumes(Slice(ohlc, i - 5, i))), Rat(15, 10)), R(At(ohlc, i).volume))
    THEN R(85) ELSE R(70)

OrderBlockAt(ohlc, i) ==
    LET current == At(ohlc, i)
        after == Range(i + 1, IF i + 6 < Len(ohlc) THEN i + 6 ELSE Len(ohlc))
    IN  IF AbovePermille(current.close, current.open, 1010)
        THEN IF \A k \in 1..Len(after) : At(ohlc, after[k]).low > current.high
             THEN <<Finding("ORDER_BLOCK", "BULLISH", OrderBlockConfidence(ohlc, i),
                            current.timestamp, current.timestamp)>>
             ELSE <<>>
        ELSE IF BelowPermille(current.close, current.open, 990)
        THEN IF \A k \in 1..Len(after) : At(ohlc, after[k]).high < current.low
             THEN <<Finding("ORDER_BLOCK", "BEARISH", OrderBlockConfidence(ohlc, i),
                            current.timestamp, current.timestamp)>>
             ELSE <<>>
        ELSE <<>>

detect_order_blocks(ohlc) ==
    IF TooShort(ohlc, MinBarsForOrderBlock) THEN Found(<<>>)
    ELSE Found(Flatten([k \in 1..Len(Range(10, Len(ohlc) - 5)) |->
                            OrderBlockAt(ohlc, Range(10, Len(ohlc) - 5)[k])]))

\* min(90, 50 + gap_percentage * 10), gap_percentage = gap_size / base * 100
GapConfidence(gap_size, base) == RMin(R(90), RAdd(R(50), RMul(Rat(gap_size * 100, base), R(10))))

FairValueGapAt(ohlc, i) ==
    LET prev_candle == At(ohlc, i - 1)
        current_candle == At(ohlc, i)
        next_candle == At(ohlc, i + 1)
    IN  IF prev_candle.high < next_candle.low /\ current_candle.close > current_candle.open
        THEN IF 1000 * (next_candle.low - prev_candle.high) > prev_candle.high
             THEN <<Finding("FVG", "BULLISH",
                            GapConfidence(next_candle.low - prev_candle.high, prev_candle.high),
                            current_candle.timestamp, current_candle.timestamp)>>
             ELSE <<>>
        ELSE IF prev_candle.low > next_candle.high /\ current_candle.close < current_candle.open
        THEN IF 1000 * (prev_candle.low - next_candle.high) > next_candle.high
             THEN <<Finding("FVG", "BEARISH",
                            GapConfidence(prev_candle.low - next_candle.high, next_candle.high),
                            current_candle.timestamp, current_candle.timestamp)>>
             ELSE <<>>
        ELSE <<>>

detect_fair_value_gaps(ohlc) ==
    IF TooShort(ohlc, MinBarsForGap) THEN Found(<<>>)
    ELSE Found(Flatten([k \in 1..Len(Range(1, Len(ohlc) - 1)) |->
                            FairValueGapAt(ohlc, Range(1, Len(ohlc) - 1)[k])]))

LiquiditySweepAt(ohlc, i) ==
    LET current == At(ohlc, i)
        recent_high == MaxOf(Highs(Slice(ohlc, i - 10, i)))
        recent_low == MinOf(Lows(Slice(ohlc, i - 10, i)))
        after == Range(i + 1, IF i + 4 < Len(ohlc) THEN i + 4 ELSE Len(ohlc))
    IN  (IF /\ AbovePermille(current.high, recent_high, 1001)
            /\ \E k \in 1..Len(after) : At(ohlc, after[k]).close < recent_high
         THEN <<Finding("LIQUIDITY_SWEEP", "BEARISH", R(75), current.timestamp, current.timestamp)>>
         ELSE <<>>)
        \o
        (IF /\ BelowPermille(current.low, recent_low, 999)
            /\ \E k \in 1..Len(after) : At(ohlc, after[k]).close > recent_low
         THEN <<Finding("LIQUIDITY_SWEEP", "BULLISH", R(75), current.timestamp, current.timestamp)>>
         ELSE <<>>)

\* for i in range(10, len(ohlc_data) - 5)
LiquiditySweeps(ohlc) ==
    Found(Flatten([k \in 1..Len(Range(10, Len(ohlc) - 5)) |->
                       LiquiditySweepAt(ohlc, Range(10, Len(ohlc) - 5)[k])]))

\* a mutation of line 129: the series is searched from 16 bars on
detect_liquidity_sweeps_from_16(ohlc) ==
    IF TooShort(ohlc, 16) THEN Found(<<>>) ELSE LiquiditySweeps(ohlc)

detect_liquidity_sweeps(ohlc) ==
    IF TooShort(ohlc, MinBarsForSweep) THEN Found(<<>>) ELSE LiquiditySweeps(ohlc)

----------------------------------------------------------------------------
(* ChartPatterns, HarmonicPatterns and VolumePatterns
   (pattern_recognition/supporting_classses) *)

MinBarsForTriangle == 20
MinBarsForHeadAndShoulders == 15
MinBarsForFlag == 15
MinBarsForGartley == 20
MinBarsForVolumeClimax == 20

Pivot(index, price, kind) == [index |-> index, price |-> price, kind |-> kind]

\* all(highs[i] >= highs[j] for j in range(i - window, i + window + 1) if j != i)
IsPivotHigh(ohlc, i, window) ==
    \A j \in (i - window)..(i + window) : At(ohlc, i).high >= At(ohlc, j).high
IsPivotLow(ohlc, i, window) ==
    \A j \in (i - window)..(i + window) : At(ohlc, i).low <= At(ohlc, j).low

\* find_pivot_points(ohlc_data, window)["highs"] and ["lows"]
PivotHighs(ohlc, window) ==
    LET at == SelectSeq(Range(window, Len(ohlc) - window), LAMBDA i : IsPivotHigh(ohlc, i, window))
    IN  [k \in 1..Len(at) |-> Pivot(at[k], At(ohlc, at[k]).high, "HIGH")]
PivotLows(ohlc, window) ==
    LET at == SelectSeq(Range(window, Len(ohlc) - window), LAMBDA i : IsPivotLow(ohlc, i, window))
    IN  [k \in 1..Len(at) |-> Pivot(at[k], At(ohlc, at[k]).low, "LOW")]

\* (recent[-1][1] - recent[0][1]) / (recent[-1][0] - recent[0][0])
PivotSlope(recent) ==
    Rat(recent[Len(recent)].price - recent[1].price, recent[Len(recent)].index - recent[1].index)

Flat == Rat(1, 10000)

\* Determine triangle type (lines 62-77)
TriangleType(high_slope, low_slope) ==
    IF RLt(high_slope, RNeg(Flat)) /\ RLt(RAbs(low_slope), Flat)
    THEN <<"Descending Triangle", "BEARISH", R(75)>>
    ELSE IF RLt(Flat, high_slope) /\ RLt(RAbs(low_slope), Flat)
    THEN <<"Ascending Triangle", "BULLISH", R(75)>>
    ELSE IF RLt(high_slope, RNeg(Flat)) /\ RLt(Flat, low_slope)
    THEN <<"Symmetrical Triangle", "CONTINUATION", R(70)>>
    ELSE <<>>

detect_triangle_patterns(ohlc) ==
    IF TooShort(ohlc, MinBarsForTriangle) THEN Found(<<>>)
    ELSE
    LET highs == PivotHighs(ohlc, 5)
        lows == PivotLows(ohlc, 5)
        recent_highs == LastN(highs, 5)
        recent_lows == LastN(lows, 5)
        type == TriangleType(PivotSlope(recent_highs), PivotSlope(recent_lows))
    IN  IF Len(highs) < 3 \/ Len(lows) < 3 THEN Found(<<>>)
        ELSE IF type = <<>> THEN Found(<<>>)
        ELSE Found(<<Finding(type[1], type[2], type[3],
                             IF recent_highs[1].index < recent_lows[1].index
                             THEN recent_highs[1].index ELSE recent_lows[1].index,
                             Len(ohlc) - 1)>>)

HeadAndShouldersAt(ohlc, highs, i) ==
    LET left_shoulder == highs[i]
        head == highs[i + 1]
        right_shoulder == highs[i + 2]
        neckline == MinOf(Lows(Slice(ohlc, left_shoulder.index, right_shoulder.index + 1)))
    IN  IF /\ head.price > left_shoulder.price
           /\ head.price > right_shoulder.price
           /\ 100 * Abs(left_shoulder.price - right_shoulder.price) < 2 * left_shoulder.price
        THEN <<Finding("Head and Shoulders", "BEARISH",
                       IF ohlc[Len(ohlc)].close < neckline THEN R(90) ELSE R(80),
                       left_shoulder.index, right_shoulder.index)>>
        ELSE <<>>

detect_head_and_shoulders(ohlc) ==
    IF TooShort(ohlc, MinBarsForHeadAndShoulders) THEN Found(<<>>)
    ELSE
    LET highs == PivotHighs(ohlc, 3)
    IN  IF Len(highs) < 3 THEN Found(<<>>)
        ELSE Found(Flatten([i \in 1..(Len(highs) - 2) |-> HeadAndShouldersAt(ohlc, highs, i)]))

FlagAt(ohlc, i) ==
    LET flagpole_start == At(ohlc, i - 10).close
        price_change == Rat(At(ohlc, i).close - flagpole_start, flagpole_start)
        consolidation_data == Slice(ohlc, i, i + 5)
        consolidation_range == MaxOf(Highs(consolidation_data)) - MinOf(Lows(consolidation_data))
        consolidation_percent == RDiv(R(consolidation_range), IntMean(Closes(consolidation_data)))
    IN  IF RLt(Rat(3, 100), RAbs(price_change)) /\ RLt(consolidation_percent, Rat(2, 100))
        THEN <<Finding(IF RLt(Zero, price_change) THEN "Bull Flag" ELSE "Bear Flag",
                       IF RLt(Zero, price_change) THEN "BULLISH" ELSE "BEARISH",
                       IF RLt(consolidation_percent, Rat(1, 100)) THEN R(80) ELSE R(70),
                       i - 10, i + 5)>>
        ELSE <<>>

detect_flag_patterns(ohlc) ==
    IF TooShort(ohlc, MinBarsForFlag) THEN Found(<<>>)
    ELSE Found(Flatten([k \in 1..Len(Range(10, Len(ohlc) - 5)) |->
                            FlagAt(ohlc, Range(10, Len(ohlc) - 5)[k])]))

\* the pivot highs and lows together, sorted by index (the high first where
\* one bar is both)
AllPivots(ohlc) ==
    Flatten([k \in 1..Len(Range(3, Len(ohlc) - 3)) |->
        LET i == Range(3, Len(ohlc) - 3)[k]
        IN  (IF IsPivotHigh(ohlc, i, 3) THEN <<Pivot(i, At(ohlc, i).high, "HIGH")>> ELSE <<>>)
            \o (IF IsPivotLow(ohlc, i, 3) THEN <<Pivot(i, At(ohlc, i).low, "LOW")>> ELSE <<>>)])

GartleyAt(all_pivots, i) ==
    LET x == all_pivots[i]
        a == all_pivots[i + 1]
        b == all_pivots[i + 2]
        c == all_pivots[i + 3]
        xa_range == Abs(a.price - x.price)
        ab_range == Abs(b.price - a.price)
        bc_range == Abs(c.price - b.price)
    IN  IF x.kind = a.kind \/ a.kind = b.kind \/ b.kind = c.kind THEN <<>>
        ELSE IF xa_range = 0 \/ ab_range = 0 THEN <<>>
        ELSE IF /\ RLe(Rat(55, 100), Rat(ab_range, xa_range))
                /\ RLe(Rat(ab_range, xa_range), Rat(68, 100))
                /\ RLe(Rat(35, 100), Rat(bc_range, ab_range))
                /\ RLe(Rat(bc_range, ab_range), Rat(90, 100))
        THEN <<Finding("Gartley Pattern", IF x.price < c.price THEN "BULLISH" ELSE "BEARISH",
                       IF RLt(RAbs(RSub(Rat(ab_range, xa_range), Rat(618, 1000))), Rat(5, 100))
                       THEN R(75) ELSE R(60),
                       x.index, c.index)>>
        ELSE <<>>

detect_gartley_pattern(ohlc) ==
    IF TooShort(ohlc, MinBarsForGartley) THEN Found(<<>>)
    ELSE IF Len(AllPivots(ohlc)) < 4 THEN Found(<<>>)
    ELSE Found(Flatten([i \in 1..(Len(AllPivots(ohlc)) - 3) |-> GartleyAt(AllPivots(ohlc), i)]))

VolumeClimaxAt(ohlc, avg_volume, i) ==
    LET current == At(ohlc, i)
    IN  IF /\ RLt(RMul(avg_volume, R(3)), R(current.volume))
           /\ 1000 * Abs(current.close - current.open) < 5 * current.open
        THEN <<Finding("Volume Climax",
                       IF current.close > current.open THEN "ACCUMULATION" ELSE "DISTRIBUTION",
                       R(75), i, i)>>
        ELSE <<>>

detect_volume_climax(ohlc) ==
    IF TooShort(ohlc, MinBarsForVolumeClimax) THEN Found(<<>>)
    ELSE IF Volumes(ohlc) = <<>> THEN Found(<<>>)
    ELSE Found(Flatten([k \in 1..Len(Range(10, Len(ohlc))) |->
                            VolumeClimaxAt(ohlc, IntMean(LastN(Volumes(ohlc), 20)),
                                           Range(10, Len(ohlc))[k])]))

----------------------------------------------------------------------------
(* The detectors driven on the first n bars of series that are quiet at 200
   but for one feature each *)

MaxDetectorBars == 60

FeatureKinds ==
    {"quiet", "sweep", "order_block", "gap", "spring", "climaxes", "rallies",
     "volume_climax", "triangle", "head", "flag"}

\* the bar at Python index k of the series of kind
FeatureBar(kind, k) ==
    CASE kind = "sweep" /\ k = 10 -> OHLCData(0, 200, 210, 199, 200, 100)
      [] kind = "order_block" /\ k = 10 -> OHLCData(0, 200, 204, 200, 204, 400)
      [] kind = "order_block" /\ k > 10 -> OHLCData(0, 210, 211, 209, 210, 100)
      [] kind = "gap" /\ k = 1 -> OHLCData(0, 200, 206, 200, 206, 100)
      [] kind = "gap" /\ k > 1 -> OHLCData(0, 210, 211, 209, 210, 100)
      [] kind = "spring" /\ k = 15 -> OHLCData(0, 200, 201, 190, 200, 100)
      [] kind = "spring" /\ k = 25 -> OHLCData(0, 200, 201, 185, 195, 50)
      [] kind = "climaxes" /\ k \in {40, 44, 48} -> OHLCData(0, 200, 201, 194, 195, 400)
      [] kind = "rallies" /\ k \in {40, 44, 48} -> OHLCData(0, 200, 206, 199, 205, 400)
      [] kind = "volume_climax" /\ k = 12 -> OHLCData(0, 200, 201, 199, 200, 1000)
      [] kind = "triangle" /\ k < 7 -> OHLCData(0, 200, 205, 199, 200, 100)
      [] kind = "head" /\ k \in {4, 12} -> OHLCData(0, 200, 205, 199, 200, 100)
      [] kind = "head" /\ k = 8 -> OHLCData(0, 200, 210, 199, 200, 100)
      [] kind = "flag" /\ k >= 10 -> OHLCData(0, 210, 211, 209, 210, 100)
      [] OTHER -> OHLCData(0, 200, 201, 199, 200, 100)

DetectorSeries(kind, n) == Stamp([k \in 1..n |-> FeatureBar(kind, k - 1)])

DetectorLengths == {0, 1, 2, 3, 14, 15, 16, 19, 20, 29, 30, 49, 50, MaxDetectorBars}

DetectorSeriesInputs == {DetectorSeries(kind, n) : kind \in FeatureKinds, n \in DetectorLengths}

\* detector(ohlc_data)
Detect(detector, outcome) ==
    /\ call' = Some([op |-> detector, result |-> outcome])
    /\ UNCHANGED <<metricsVars, learningVars, toolVars, engineVars, bt, report>>

DetectAccumulationPhase == Detect("detect_accumulation_phase", detect_accumulation_phase(ohlc_data))
DetectDistributionPhase == Detect("detect_distribution_phase", detect_distribution_phase(ohlc_data))
DetectSpring == Detect("detect_spring", detect_spring(ohlc_data))
DetectOrderBlocks == Detect("detect_order_blocks", detect_order_blocks(ohlc_data))
DetectFairValueGaps == Detect("detect_fair_value_gaps", detect_fair_value_gaps(ohlc_data))
DetectLiquiditySweeps == Detect("detect_liquidity_sweeps", detect_liquidity_sweeps(ohlc_data))
DetectTrianglePatterns == Detect("detect_triangle_patterns", detect_triangle_patterns(ohlc_data))
DetectHeadAndShoulders == Detect("detect_head_and_shoulders", detect_head_and_shoulders(ohlc_data))
DetectFlagPatterns == Detect("detect_flag_patterns", detect_flag_patterns(ohlc_data))
DetectGartleyPattern == Detect("detect_gartley_pattern", detect_gartley_pattern(ohlc_data))
DetectVolumeClimax == Detect("detect_volume_climax", detect_volume_climax(ohlc_data))

InitDetectors ==
    /\ trades = <<>>
    /\ metrics = None
    /\ confluence_weights = InitialWeights
    /\ optimization_history = <<>>
    /\ pattern_reliability_scores = <<>>
    /\ le_call = None
    /\ trades_database = <<>>
    /\ last_add = None
    /\ ohlc_data \in DetectorSeriesInputs
    /\ technical_indicators = <<>>
    /\ signal = None
    /\ bt = [pc |-> "idle"]
    /\ report = [pc |-> "idle"]
    /\ call = None

NextDetectors ==
    \/ DetectAccumulationPhase
    \/ DetectDistributionPhase
    \/ DetectSpring
    \/ DetectOrderBlocks
    \/ DetectFairValueGaps
    \/ DetectLiquiditySweeps
    \/ DetectTrianglePatterns
    \/ DetectHeadAndShoulders
    \/ DetectFlagPatterns
    \/ DetectGartleyPattern
    \/ DetectVolumeClimax

SpecDetectors == InitDetectors /\ [][NextDetectors]_vars

----------------------------------------------------------------------------
(* Claims about the detectors, checked under SpecDetectors *)

\* bar b of the last 20 trades at least 0.5% below the low that an earlier bar
\* s of them set, the lowest of the last 20 bars up to b, and closes above it
C14_SpringAt(s, b) ==
    /\ Len(ohlc_data) - 20 <= s
    /\ s < b
    /\ b < Len(ohlc_data)
    /\ \A j \in (Len(ohlc_data) - 20)..(b - 1) : At(ohlc_data, s).low <= At(ohlc_data, j).low
    /\ 1000 * At(ohlc_data, b).low <= 995 * At(ohlc_data, s).low
    /\ At(ohlc_data, b).close > At(ohlc_data, s).low

\* C14: detect_spring returns a SPRING finding (confidence 75, or 85 when the
\* breaking bar's volume is below the trailing-10 average) for a series of 30
\* or more positive-priced bars in which, after the bar that sets the 20-bar
\* low, a later bar trades at least 0.5% below that low and closes back above
\* it; such inputs exist, so the detector can fire.
C14_SpringFires ==
    (/\ ~IsNone(call)
     /\ Val(call).op = "detect_spring"
     /\ Len(ohlc_data) >= 30
     /\ \E s, b \in 0..(Len(ohlc_data) - 1) : C14_SpringAt(s, b))
    => /\ Val(call).result.raised = ""
       /\ Len(Val(call).result.findings) = 1
       /\ Val(call).result.findings[1].pattern = "SPRING"
       /\ Val(call).result.findings[1].confidence \in {R(75), R(85)}

C18_StatedMinimum ==
    [detect_triangle_patterns |-> 20, detect_head_and_shoulders |-> 15, detect_flag_patterns |-> 15,
     detect_gartley_pattern |-> 20, detect_volume_climax |-> 20, detect_order_blocks |-> 20,
     detect_fair_value_gaps |-> 3, detect_liquidity_sweeps |-> 20,
     detect_accumulation_phase |-> 50, detect_distribution_phase |-> 50, detect_spring |-> 30]

\* C18: every pattern detector, called with fewer bars than its stated minimum
\* (the empty series included), returns no findings and does not raise.
C18_NothingBelowMinimum ==
    (~IsNone(call) /\ Len(ohlc_data) < C18_StatedMinimum[Val(call).op])
    => /\ Val(call).result.raised = ""
       /\ Val(call).result.findings = <<>>

\* nineteen bars that hold a sweep of the highs, which the search would report
C18_Witness ==
    /\ ~IsNone(call)
    /\ Val(call).op = "detect_liquidity_sweeps"
    /\ Len(ohlc_data) = 19
    /\ LiquiditySweeps(ohlc_data).findings # <<>>
    /\ Val(call).result = Found(<<>>)

----------------------------------------------------------------------------
(* BacktestingTool._analyze_parameter_stability, _generate_recommendation and
   _run_comprehensive_backtest (back_testing_tool.py).  report is the frame of
   the call in progress; each _execute_backtest it makes runs through bt on
   ohlc_data, the argument of that call. *)

MinBarsForPeriod == 50
NeutralStability == 50
SqrtStep == 10

\* ohlc_data[:period_size], ohlc_data[period_size:2*period_size], ohlc_data[2*period_size:]
Periods(ohlc) ==
    LET period_size == Len(ohlc) \div 3
    IN  <<Slice(ohlc, 0, period_size), Slice(ohlc, period_size, 2 * period_size),
          Slice(ohlc, 2 * period_size, Len(ohlc))>>

\* np.std's square root of the variance v: exact where v is the square of a
\* multiple of 1/SqrtStep, otherwise a float between the two neighbouring
\* multiples, for which both of them stand
SqrtOutcomes(v) ==
    LET below == CHOOSE r \in 0..(100 * SqrtStep) :
                     /\ r * r * v.d <= SqrtStep * SqrtStep * v.n
                     /\ (r + 1) * (r + 1) * v.d > SqrtStep * SqrtStep * v.n
    IN  IF below * below * v.d = SqrtStep * SqrtStep * v.n THEN {Rat(below, SqrtStep)}
        ELSE {Rat(below, SqrtStep), Rat(below + 1, SqrtStep)}

\* lines 381-398, the standard deviation given
parameter_stability(period_results, std_performance) ==
    IF Len(period_results) < 2 THEN R(NeutralStability)
    ELSE IF IsZero(NpMean(period_results)) THEN Zero
    ELSE RMin(R(100), RMax(Zero, RSub(R(100), RMul(RDiv(std_performance, NpMean(period_results)),
                                                   R(100)))))

Reasons(value, marks, names) ==
    IF RLe(marks[1], value) THEN names[1]
    ELSE IF RLe(marks[2], value) THEN names[2]
    ELSE IF RLe(marks[3], value) THEN names[3]
    ELSE names[4]

Points_above_mark(value, marks, points) ==
    IF RLt(marks[1], value) THEN points[1]
    ELSE IF RLt(marks[2], value) THEN points[2]
    ELSE IF RLt(marks[3], value) THEN points[3]
    ELSE 0

Points(value, marks, points) ==
    IF RLe(marks[1], value) THEN points[1]
    ELSE IF RLe(marks[2], value) THEN points[2]
    ELSE IF RLe(marks[3], value) THEN points[3]
    ELSE 0

\* Drawdown scoring (lines 437-448): the lower the better
DrawdownPoints(value) ==
    IF RLe(value, R(10)) THEN 20 ELSE IF RLe(value, R(20)) THEN 15 ELSE IF RLe(value, R(30)) THEN 5 ELSE 0
DrawdownReason(value) ==
    IF RLe(value, R(10)) THEN "Low drawdown"
    ELSE IF RLe(value, R(20)) THEN "Moderate drawdown"
    ELSE IF RLe(value, R(30)) THEN "High drawdown"
    ELSE "Excessive drawdown"

RecommendationScore(performance, statistical_significance, stability) ==
    Points(performance.win_rate, <<R(65), R(55), R(45)>>, <<25, 20, 10>>)
      + Points(performance.profit_factor, <<R(2), Rat(15, 10), Rat(12, 10)>>, <<25, 20, 10>>)
      + DrawdownPoints(performance.max_drawdown_percent)
      + Points(statistical_significance, <<R(95), R(80), R(60)>>, <<15, 10, 5>>)
      + Points(stability, <<R(80), R(60), R(40)>>, <<15, 10, 5>>)

\* Generate recommendation (lines 476-484)
RecommendationLabel(score) ==
    IF score >= 80 THEN "APPROVED - Deploy to live trading"
    ELSE IF score >= 60 THEN "CONDITIONALLY_APPROVED - Minor adjustments recommended"
    ELSE IF score >= 40 THEN "NEEDS_IMPROVEMENT - Significant adjustments required"
    ELSE "REJECTED - Major issues identified"

\* f"{recommendation} (Score: {score}/100) - {detailed_reasoning}", the
\* figures inside the reasons left out
generate_recommendation(performance, statistical_significance, stability) ==
    [recommendation |-> RecommendationLabel(RecommendationScore(performance, statistical_significance,
                                                                stability)),
     score |-> RecommendationScore(performance, statistical_significance, stability),
     reasons |->
        <<Reasons(performance.win_rate, <<R(65), R(55), R(45)>>,
                  <<"Excellent win rate", "Good win rate", "Acceptable win rate", "Poor win rate">>),
          Reasons(performance.profit_factor, <<R(2), Rat(15, 10), Rat(12, 10)>>,
                  <<"Excellent profit factor", "Good profit factor", "Acceptable profit factor",
                    "Poor profit factor">>),
          DrawdownReason(performance.max_drawdown_percent),
          Reasons(statistical_significance, <<R(95), R(80), R(60)>>,
                  <<"Highly significant results", "Significant results",
                    "Marginally significant results", "Results lack statistical significance">>),
          Reasons(stability, <<R(80), R(60), R(40)>>,
                  <<"Highly stable parameters", "Stable parameters", "Moderately stable parameters",
                    "Unstable parameters">>)>>]

\* the frame of a call: what it was given, what it has computed and, once
\* pc = "done", the exception it ended with or the text it returned
Frame(pc, op, config, historical_data) ==
    [pc |-> pc, op |-> op, config |-> config, historical_data |-> historical_data,
     result |-> None, significance |-> Zero, period |-> 1, period_results |-> <<>>,
     stability |-> None, recommendation |-> None, raised |-> "", output |-> ""]

\* _run_comprehensive_backtest(config, data_config) up to the loop of its
\* _execute_backtest; ohlc_data is what _load_historical_data generated
RunComprehensiveBacktest(config) ==
    /\ report.pc = "idle"
    /\ bt.pc = "idle"
    /\ IF ohlc_data = <<>>
       THEN /\ report' = [Frame("done", "_run_comprehensive_backtest", config, ohlc_data)
                             EXCEPT !.output = "Error: Could not load historical data"]
            /\ bt' = bt
       ELSE /\ report' = Frame("backtest", "_run_comprehensive_backtest", config, ohlc_data)
            /\ bt' = StartBacktest(config, ohlc_data)
    /\ UNCHANGED <<ohlc_data, technical_indicators, signal, metricsVars, learningVars, toolVars, call>>

\* lines 103-113: the backtest is back; an exception of it ends the call (in
\* _run, as the text "Backtesting error: ...")
AfterBacktest ==
    /\ report.pc = "backtest"
    /\ bt.pc \in {"done", "raised"}
    /\ \E tanh \in TanhOutcomes(IF bt.pc = "raised" \/ IsNone(bt.result) \/ Val(bt.result).trades = <<>>
                                THEN Zero
                                ELSE z_score_squared(Len(SelectSeq(Val(bt.result).trades, IsWin)),
                                                     Len(Val(bt.result).trades))) :
           report' = IF bt.pc = "raised"
                     THEN [report EXCEPT !.pc = "done", !.raised = bt.error,
                                         !.output = "Backtesting error"]
                     ELSE IF IsNone(bt.result)
                     THEN [report EXCEPT !.pc = "done", !.output = "Error: Backtest execution failed"]
                     ELSE [report EXCEPT !.pc = "stability", !.result = bt.result,
                                         !.significance =
                                             calculate_statistical_significance(Val(bt.result).trades, tanh)]
    /\ bt' = [pc |-> "idle"]
    /\ UNCHANGED <<ohlc_data, technical_indicators, signal, metricsVars, learningVars, toolVars, call>>

\* _analyze_parameter_stability(config, ohlc_data) called on its own
AnalyzeParameterStability(config) ==
    /\ report.pc = "idle"
    /\ bt.pc = "idle"
    /\ report' = Frame("stability", "_analyze_parameter_stability", config, ohlc_data)
    /\ UNCHANGED <<bt, ohlc_data, technical_indicators, signal, metricsVars, learningVars, toolVars, call>>

\* for period_data in periods: a period under 50 bars is passed over, any
\* other is handed to _execute_backtest
StabilityPeriod ==
    /\ report.pc = "stability"
    /\ report.period <= 3
    /\ bt.pc = "idle"
    /\ LET period_data == Periods(report.historical_data)[report.period]
       IN  IF Len(period_data) < MinBarsForPeriod
           THEN /\ report' = [report EXCEPT !.period = @ + 1]
                /\ UNCHANGED <<bt, ohlc_data>>
           ELSE /\ report' = [report EXCEPT !.pc = "period"]
                /\ ohlc_data' = period_data
                /\ bt' = StartBacktest(report.config, period_data)
    /\ UNCHANGED <<technical_indicators, signal, metricsVars, learningVars, toolVars, call>>

\* the period's backtest is back: its win rate is kept if there is a result;
\* an exception of it ends the call
StabilityCollect ==
    /\ report.pc = "period"
    /\ bt.pc \in {"done", "raised"}
    /\ report' = IF bt.pc = "raised"
                 THEN [report EXCEPT !.pc = "done", !.raised = bt.error,
                                     !.output = IF report.op = "_run_comprehensive_backtest"
                                                THEN "Backtesting error" ELSE ""]
                 ELSE [report EXCEPT !.pc = "stability", !.period = @ + 1,
                                     !.period_results =
                                         IF IsNone(bt.result) THEN @
                                         ELSE Append(@, Val(bt.result).performance_metrics.win_rate)]
    /\ bt' = [pc |-> "idle"]
    /\ ohlc_data' = report.historical_data
    /\ UNCHANGED <<technical_indicators, signal, metricsVars, learningVars, toolVars, call>>

\* the three periods are done: lines 384-398 and, in the comprehensive run,
\* lines 116-122
StabilityFinish ==
    /\ report.pc = "stability"
    /\ report.period > 3
    /\ \E std_performance \in SqrtOutcomes(IF report.period_results = <<>> THEN Zero
                                           ELSE PopulationVariance(report.period_results)) :
           report' = [report EXCEPT
               !.pc = "done",
               !.stability = Some(parameter_stability(report.period_results, std_performance)),
               !.recommendation =
                   IF report.op = "_run_comprehensive_backtest"
                   THEN Some(generate_recommendation(Val(report.result).performance_metrics,
                                                     report.significance,
                                                     parameter_stability(report.period_results,
                                                                         std_performance)))
                   ELSE None,
               !.output = IF report.op = "_run_comprehensive_backtest"
                          THEN "COMPREHENSIVE BACKTEST RESULTS" ELSE ""]
    /\ UNCHANGED <<bt, ohlc_data, technical_indicators, signal, metricsVars, learningVars, toolVars, call>>

----------------------------------------------------------------------------
(* The stability analysis and the comprehensive run driven on series of one
   or of three signal-bearing stretches *)

MaxStabilityBars == 345

StretchKinds == {"up", "down"}

\* a third of MaxStabilityBars bars that end, after a BUY signal, on the
\* target (up) or on the stop (down)
Stretch(kind) == BacktestSeries("BUY", 0, kind, MaxStabilityBars \div 3)

ThreeStretches(a, b, c) == Stamp(Stretch(a) \o Stretch(b) \o Stretch(c))

StabilitySeriesInputs ==
    {ThreeStretches(a, b, c) : a \in StretchKinds, b \in StretchKinds, c \in StretchKinds}
    \cup {Stamp(Quiet(n, 200, 100)) : n \in {120, 150, 300, MaxStabilityBars}}
    \cup {BacktestSeries("BUY", 0, "up", 115), BacktestSeries("SELL", 0, "down", 150)}

ReportSeriesInputs ==
    {BacktestSeries(direction, 0, resolution, 115) :
         direction \in {"BUY", "SELL"}, resolution \in ResolutionKinds}
    \cup {<<>>, BacktestSeries("BUY", 0, "none", 99), Stamp(Quiet(120, 200, 100)),
          ThreeStretches("up", "down", "up")}

ReportConfigInputs == {<<>>, [min_confluence_score |-> R(101)], [min_confluence_score |-> R(95)]}

InitStability ==
    /\ trades = <<>>
    /\ metrics = None
    /\ confluence_weights = InitialWeights
    /\ optimization_history = <<>>
    /\ pattern_reliability_scores = <<>>
    /\ le_call = None
    /\ trades_database = <<>>
    /\ last_add = None
    /\ ohlc_data \in StabilitySeriesInputs
    /\ technical_indicators = <<>>
    /\ signal = None
    /\ bt = [pc |-> "idle"]
    /\ report = [pc |-> "idle"]
    /\ call = None

NextStability ==
    \/ \E config \in ReportConfigInputs : AnalyzeParameterStability(config)
    \/ StabilityPeriod
    \/ ExecuteBacktestStep
    \/ ExecuteBacktestFinish
    \/ StabilityCollect
    \/ StabilityFinish

SpecStability == InitStability /\ [][NextStability]_vars

InitReport ==
    /\ trades = <<>>
    /\ metrics = None
    /\ confluence_weights = InitialWeights
    /\ optimization_history = <<>>
    /\ pattern_reliability_scores = <<>>
    /\ le_call = None
    /\ trades_database = <<>>
    /\ last_add = None
    /\ ohlc_data \in ReportSeriesInputs
    /\ technical_indicators = <<>>
    /\ signal = None
    /\ bt = [pc |-> "idle"]
    /\ report = [pc |-> "idle"]
    /\ call = None

NextReport ==
    \/ \E config \in ReportConfigInputs : RunComprehensiveBacktest(config)
    \/ ExecuteBacktestStep
    \/ ExecuteBacktestFinish
    \/ AfterBacktest
    \/ StabilityPeriod
    \/ StabilityCollect
    \/ StabilityFinish

SpecReport == InitReport /\ [][NextReport]_vars

----------------------------------------------------------------------------
(* Claims about the comprehensive run and the stability analysis *)

\* C13: with min_confluence_score = 101, a backtest over any bar series of 100
\* or more bars produces zero trades and all-zero performance metrics, and the
\* recommendation generated from it, with the significance and stability of
\* that same run, carries the label REJECTED.  (Checked under SpecReport.)
C13_NoTradesRejected ==
    (/\ report.pc = "done"
     /\ report.op = "_run_comprehensive_backtest"
     /\ report.config = [min_confluence_score |-> R(101)]
     /\ Len(report.historical_data) >= 100)
    => /\ report.raised = ""
       /\ ~IsNone(report.result)
       /\ Val(report.result).trades = <<>>
       /\ Val(report.result).performance_metrics = ZeroMetrics(0)
       /\ ~IsNone(report.recommendation)
       /\ Val(report.recommendation).recommendation = "REJECTED - Major issues identified"

\* C15: _analyze_parameter_stability always returns a value in [0, 100]: the
\* neutral 50 whenever fewer than two of the three periods yield a backtest
\* result, and otherwise max(0, 100 - cv * 100), cv the standard deviation of
\* the periods' win rates over their mean, so that periods with identical win
\* rates score 100.  (Checked under SpecStability.)
C15_StabilityBounded ==
    (report.pc = "done" /\ report.op = "_analyze_parameter_stability")
    => /\ report.raised = ""
       /\ ~IsNone(report.stability)
       /\ RLe(Zero, Val(report.stability))
       /\ RLe(Val(report.stability), R(100))
       /\ Len(report.period_results) < 2 => Val(report.stability) = R(50)
       /\ (/\ Len(report.period_results) >= 2
           /\ \A k \in 1..Len(report.period_results) :
                  report.period_results[k] = report.period_results[1])
          => Val(report.stability) = R(100)

----------------------------------------------------------------------------
(* _generate_recommendation driven on figures at and around every band mark *)

WinRateInputs == {Zero, Rat(449, 10), R(45), R(55), Rat(649, 10), R(65), R(100)}
ProfitFactorInputs == {Zero, Rat(119, 100), Rat(12, 10), Rat(15, 10), Rat(199, 100), R(2), Inf}
DrawdownInputs == {Zero, R(10), Rat(101, 10), R(20), R(30), Rat(301, 10), R(100)}
SignificanceInputs == {Zero, Rat(599, 10), R(60), R(80), R(95), Rat(999, 10)}
StabilityInputs == {Zero, Rat(399, 10), R(40), R(60), R(80), R(100)}

\* recommendation = self._generate_recommendation(backtest_result,
\*                      statistical_significance, parameter_stability)
GenerateRecommendation(win_rate, profit_factor, max_drawdown_percent, statistical_significance, stability) ==
    /\ IsNone(call)
    /\ call' = Some([op |-> "_generate_recommendation",
                     win_rate |-> win_rate, profit_factor |-> profit_factor,
                     max_drawdown_percent |-> max_drawdown_percent,
                     statistical_significance |-> statistical_significance,
                     parameter_stability |-> stability,
                     result |-> generate_recommendation(
                                    [ZeroMetrics(0) EXCEPT !.win_rate = win_rate,
                                                           !.profit_factor = profit_factor,
                                                           !.max_drawdown_percent = max_drawdown_percent],
                                    statistical_significance, stability)])
    /\ UNCHANGED <<trades, metrics, learningVars, toolVars, engineVars, bt, report>>

NextRecommendation ==
    \E win_rate \in WinRateInputs, profit_factor \in ProfitFactorInputs,
       max_drawdown_percent \in DrawdownInputs, statistical_significance \in SignificanceInputs,
       stability \in StabilityInputs :
        GenerateRecommendation(win_rate, profit_factor, max_drawdown_percent,
                               statistical_significance, stability)

SpecRecommendation == Init /\ [][NextRecommendation]_vars

----------------------------------------------------------------------------
(* Claims about the recommendation, checked under SpecRecommendation *)

\* the band tables of the claim: points at or above each of three marks
C21_Band(value, high, mid, low, points) ==
    IF RLe(high, value) THEN points[1]
    ELSE IF RLe(mid, value) THEN points[2]
    ELSE IF RLe(low, value) THEN points[3]
    ELSE 0

C21_Sum(c) ==
    C21_Band(c.win_rate, R(65), R(55), R(45), <<25, 20, 10>>)
      + C21_Band(c.profit_factor, R(2), Rat(3, 2), Rat(6, 5), <<25, 20, 10>>)
      + (IF RLe(c.max_drawdown_percent, R(10)) THEN 20
         ELSE IF RLe(c.max_drawdown_percent, R(20)) THEN 15
         ELSE IF RLe(c.max_drawdown_percent, R(30)) THEN 5 ELSE 0)
      + C21_Band(c.statistical_significance, R(95), R(80), R(60), <<15, 10, 5>>)
      + C21_Band(c.parameter_stability, R(80), R(60), R(40), <<15, 10, 5>>)

\* C21: the recommendation score is the sum of the five band scores (win rate,
\* profit factor, max drawdown percent, statistical significance, parameter
\* stability), it lies in 0..100, and the label is APPROVED iff score >= 80,
\* CONDITIONALLY_APPROVED iff 60 <= score < 80, NEEDS_IMPROVEMENT iff
\* 40 <= score < 60 and REJECTED iff score < 40.
C21_ScoreAndLabel ==
    (~IsNone(call) /\ Val(call).op = "_generate_recommendation") =>
        LET score == Val(call).result.score
            label == Val(call).result.recommendation
        IN  /\ score = C21_Sum(Val(call))
            /\ score \in 0..100
            /\ (label = "APPROVED - Deploy to live trading") <=> (score >= 80)
            /\ (label = "CONDITIONALLY_APPROVED - Minor adjustments recommended")
                   <=> (60 <= score /\ score < 80)
            /\ (label = "NEEDS_IMPROVEMENT - Significant adjustments required")
                   <=> (40 <= score /\ score < 60)
            /\ (label = "REJECTED - Major issues identified") <=> (score < 40)

\* every figure exactly on its best mark: 25 + 25 + 20 + 15 + 15 = 100, APPROVED
C21_Witness ==
    /\ ~IsNone(call)
    /\ Val(call).op = "_generate_recommendation"
    /\ Val(call).win_rate = R(65)
    /\ Val(call).profit_factor = R(2)
    /\ Val(call).max_drawdown_percent = R(10)
    /\ Val(call).statistical_significance = R(95)
    /\ Val(call).parameter_stability = R(80)
    /\ Val(call).result.score = 100
    /\ Val(call).result.recommendation = "APPROVED - Deploy to live trading"

----------------------------------------------------------------------------
(* TechnicalIndicators: the exponential moving average and MACD
   (technical_indicator.py).  np.nan is the value 0/0; arithmetic on it and
   np.mean over it give np.nan again. *)

NaN == [n |-> 0, d |-> 0]
IsNaN(x) == x.n = 0 /\ x.d = 0

NanAdd(a, b) == IF IsNaN(a) \/ IsNaN(b) THEN NaN ELSE RAdd(a, b)
NanSub(a, b) == IF IsNaN(a) \/ IsNaN(b) THEN NaN ELSE RSub(a, b)
NanMul(a, b) == IF IsNaN(a) \/ IsNaN(b) THEN NaN ELSE RMul(a, b)

\* np.mean(data[:period])
NanMean(xs) == IF \E i \in 1..Len(xs) : IsNaN(xs[i]) THEN NaN ELSE NpMean(xs)

\* lines 35-38: ema_val = alpha * data[i] + (1 - alpha) * result[-1], for the
\* values from the 1-based position i on
RECURSIVE EmaFrom(_, _, _, _)
EmaFrom(data, alpha, result, i) ==
    IF i > Len(data) THEN result
    ELSE EmaFrom(data, alpha,
                 Append(result, NanAdd(NanMul(alpha, data[i]),
                                       NanMul(RSub(R(1), alpha), result[Len(result)]))),
                 i + 1)

\* TechnicalIndicators.ema(data, period)
ema(data, period) ==
    IF Len(data) < period THEN [i \in 1..Len(data) |-> NaN]
    ELSE EmaFrom(data, Rat(2, period + 1),
                 [i \in 1..period |-> IF i < period THEN NaN
                                      ELSE NanMean(SubSeq(data, 1, period))],
                 period + 1)

\* TechnicalIndicators.macd(data, fast, slow, signal); the third period is
\* called signal_period here
macd(data, fast, slow, signal_period) ==
    LET ema_fast == ema(data, fast)
        ema_slow == ema(data, slow)
        macd_line == [i \in 1..Len(data) |-> NanSub(ema_fast[i], ema_slow[i])]
        signal_line == ema(macd_line, signal_period)
    IN  [macd |-> macd_line,
         signal |-> signal_line,
         histogram |-> [i \in 1..Len(macd_line) |-> NanSub(macd_line[i], signal_line[i])]]

----------------------------------------------------------------------------
(* macd driven on every short series of two price levels *)

MaxMacdLen == 10
MacdLevels == {R(1), R(3)}
MacdSeriesInputs == UNION {[1..n -> MacdLevels] : n \in 0..MaxMacdLen}

\* <<fast, slow, signal>>
MacdPeriodInputs == {<<1, 3, 3>>, <<3, 7, 3>>, <<1, 1, 2>>}

Macd(data, periods) ==
    /\ IsNone(call)
    /\ call' = Some([op |-> "macd", data |-> data, fast |-> periods[1], slow |-> periods[2],
                     signal |-> periods[3],
                     result |-> macd(data, periods[1], periods[2], periods[3])])
    /\ UNCHANGED <<trades, metrics, learningVars, toolVars, engineVars, bt, report>>

NextMacd == \E data \in MacdSeriesInputs, periods \in MacdPeriodInputs : Macd(data, periods)

SpecMacd == Init /\ [][NextMacd]_vars

----------------------------------------------------------------------------
(* Claims about MACD, checked under SpecMacd *)

\* C23: macd returns macd_line, signal_line and histogram each of exactly the
\* input's length; the MACD line is defined at every index >= slow-1, and the
\* signal line and the histogram are defined at every index >= slow+signal-2
\* (indices counted from 0), and undefined before.
C23_MacdDefinedAfterWarmUp ==
    (~IsNone(call) /\ Val(call).op = "macd") =>
        LET c == Val(call)
            n == Len(c.data)
        IN  /\ Len(c.result.macd) = n
            /\ Len(c.result.signal) = n
            /\ Len(c.result.histogram) = n
            /\ \A i \in 1..n :
                  /\ ~IsNaN(c.result.macd[i]) <=> (i - 1 >= c.slow - 1)
                  /\ ~IsNaN(c.result.signal[i]) <=> (i - 1 >= c.slow + c.signal - 2)
                  /\ ~IsNaN(c.result.histogram[i]) <=> (i - 1 >= c.slow + c.signal - 2)

----------------------------------------------------------------------------
(* BacktestingTool._generate_synthetic_data (back_testing_tool.py:524-554).
   The random draws of a bar are an input: change is np.random.normal(0, 0.001),
   coin is np.random.random() > 0.5 (drawn in the trending bars only), up and
   down are the two np.random.normal(0, 0.0003) and volume is
   np.random.normal(1000, 300). *)

HoursPerDay == 24
TrendCycle == 100
TrendingBars == 30
TrendStep == Rat(5, 10000)
BasePrice == Rat(12, 10)

Magnitude(x) == IF x.n < 0 THEN [n |-> -x.n, d |-> x.d] ELSE x

\* one pass of the loop, lines 530-552: the bar of hour i and the next base_price
SyntheticBar(base_price, i, draw) ==
    LET change == IF i % TrendCycle < TrendingBars
                  THEN RAdd(draw.change, IF draw.coin THEN TrendStep ELSE RSub(Zero, TrendStep))
                  ELSE draw.change
        new_price == RMul(base_price, RAdd(R(1), change))
    IN  [timestamp |-> i,
         open |-> base_price,
         high |-> RMul(new_price, RAdd(R(1), Magnitude(draw.up))),
         low |-> RMul(new_price, RSub(R(1), Magnitude(draw.down))),
         close |-> new_price,
         volume |-> Magnitude(draw.volume)]

RECURSIVE SyntheticFrom(_, _, _, _, _)
SyntheticFrom(data, base_price, i, n, draws) ==
    IF i >= n THEN data
    ELSE LET candle == SyntheticBar(base_price, i, draws[i + 1])
         IN  SyntheticFrom(Append(data, candle), candle.close, i + 1, n, draws)

\* for i in range(days * 24)
generate_synthetic_data(days, draws) ==
    SyntheticFrom(<<>>, BasePrice, 0, days * HoursPerDay, draws)

----------------------------------------------------------------------------
(* The generator driven on draws that leave the price where it is in every
   hour but one, and there take any outcome of DrawOutcomes *)

MaxDays == 2

ChangeOutcomes == {Rat(-3, 2000), Rat(-1, 2000), Rat(1, 2000), Rat(3, 2000)}
JitterOutcomes == {Rat(-3, 10000), Zero, Rat(3, 10000)}
DrawOutcomes ==
    [change : ChangeOutcomes, coin : BOOLEAN, up : JitterOutcomes, down : JitterOutcomes,
     volume : {R(1000)}]

\* the draws of an hour in which the price does not move
StillDraw(i) ==
    [change |-> IF i % TrendCycle < TrendingBars THEN TrendStep ELSE Zero, coin |-> FALSE,
     up |-> Zero, down |-> Zero, volume |-> R(1000)]

DrawSequence(days, hour, draw) ==
    [k \in 1..(days * HoursPerDay) |-> IF k = hour + 1 THEN draw ELSE StillDraw(k - 1)]

GenerateSyntheticData(days, hour, draw) ==
    /\ IsNone(call)
    /\ call' = Some([op |-> "_generate_synthetic_data", days |-> days, hour |-> hour, draw |-> draw,
                     result |-> generate_synthetic_data(days, DrawSequence(days, hour, draw))])
    /\ UNCHANGED <<trades, metrics, learningVars, toolVars, engineVars, bt, report>>

NextSynthetic ==
    \/ \E days \in 1..MaxDays, draw \in DrawOutcomes :
           \E hour \in 0..(days * HoursPerDay - 1) : GenerateSyntheticData(days, hour, draw)
    \/ GenerateSyntheticData(0, 0, StillDraw(0))

SpecSynthetic == Init /\ [][NextSynthetic]_vars

----------------------------------------------------------------------------
(* Claims about the synthetic data, checked under SpecSynthetic *)

\* C24: for every outcome of its random draws _generate_synthetic_data(symbol,
\* timeframe, days) returns exactly days*24 bars and every bar satisfies
\* high >= low, high >= max(open, close) and low <= min(open, close).
C24_WellFormedBars ==
    (~IsNone(call) /\ Val(call).op = "_generate_synthetic_data") =>
        LET data == Val(call).result
        IN  /\ Len(data) = Val(call).days * 24
            /\ \A k \in 1..Len(data) :
                  /\ RLe(data[k].low, data[k].high)
                  /\ RLe(RMax(data[k].open, data[k].close), data[k].high)
                  /\ RLe(data[k].low, RMin(data[k].open, data[k].close))

----------------------------------------------------------------------------
(* find_pivot_points and the swing detection of detect_market_structure_shift
   driven on series with a lone peak, with two equal peaks and with none *)

\* find_pivot_points(ohlc_data, window)
find_pivot_points(ohlc, window) ==
    [highs |-> PivotHighs(ohlc, window), lows |-> PivotLows(ohlc, window)]

MaxPivotBars == 26
PivotShapes == {"flat", "peak", "twin", "far_twin", "ramp"}
PivotLengths == {0, 10, 11, 15, 19, 20, 21, 23, MaxPivotBars}
PivotWindows == {1, 3, 5}

\* the bar at Python index k: a peak bar reaches 3 higher and 3 lower than the rest
PivotBar(shape, k) ==
    CASE shape = "peak" /\ k = 10 -> OHLCData(0, 200, 204, 196, 200, 100)
      [] shape = "twin" /\ k \in {10, 12} -> OHLCData(0, 200, 204, 196, 200, 100)
      [] shape = "far_twin" /\ k \in {7, 14} -> OHLCData(0, 200, 204, 196, 200, 100)
      [] shape = "ramp" -> OHLCData(0, 200 + k, 201 + k, 199 + k, 200 + k, 100)
      [] OTHER -> OHLCData(0, 200, 201, 199, 200, 100)

PivotSeries(shape, n) == Stamp([k \in 1..n |-> PivotBar(shape, k - 1)])
PivotSeriesInputs == {PivotSeries(shape, n) : shape \in PivotShapes, n \in PivotLengths}

FindPivotPoints(window) ==
    /\ call' = Some([op |-> "find_pivot_points", window |-> window,
                     result |-> find_pivot_points(ohlc_data, window)])
    /\ UNCHANGED <<metricsVars, learningVars, toolVars, engineVars, bt, report>>

DetectMarketStructureShift ==
    /\ call' = Some([op |-> "detect_market_structure_shift", window |-> 5,
                     result |-> detect_market_structure_shift(ohlc_data)])
    /\ UNCHANGED <<metricsVars, learningVars, toolVars, engineVars, bt, report>>

InitPivots ==
    /\ trades = <<>>
    /\ metrics = None
    /\ confluence_weights = InitialWeights
    /\ optimization_history = <<>>
    /\ pattern_reliability_scores = <<>>
    /\ le_call = None
    /\ trades_database = <<>>
    /\ last_add = None
    /\ ohlc_data \in PivotSeriesInputs
    /\ technical_indicators = <<>>
    /\ signal = None
    /\ bt = [pc |-> "idle"]
    /\ report = [pc |-> "idle"]
    /\ call = None

NextPivots ==
    \/ \E window \in PivotWindows : FindPivotPoints(window)
    \/ DetectMarketStructureShift

SpecPivots == InitPivots /\ [][NextPivots]_vars

----------------------------------------------------------------------------
(* Claims about pivots, checked under SpecPivots *)

\* the bar at index i is strictly above (below) every other bar within window
C25_StrictHigh(i, window) ==
    \A j \in (i - window)..(i + window) :
        (j # i /\ j >= 0 /\ j < Len(ohlc_data)) => At(ohlc_data, i).high > At(ohlc_data, j).high
C25_StrictLow(i, window) ==
    \A j \in (i - window)..(i + window) :
        (j # i /\ j >= 0 /\ j < Len(ohlc_data)) => At(ohlc_data, i).low < At(ohlc_data, j).low

\* C25: find_pivot_points and the structure-shift swing detection report bar i
\* as a pivot/swing high (low) only if its high (low) is strictly greater
\* (smaller) than that of every other bar within +-window bars of i; a series
\* of equal highs yields no pivot highs.
C25_PivotsAreStrict ==
    /\ (~IsNone(call) /\ Val(call).op = "find_pivot_points") =>
          /\ \A k \in 1..Len(Val(call).result.highs) :
                C25_StrictHigh(Val(call).result.highs[k].index, Val(call).window)
          /\ \A k \in 1..Len(Val(call).result.lows) :
                C25_StrictLow(Val(call).result.lows[k].index, Val(call).window)
    /\ (~IsNone(call) /\ Val(call).op = "detect_market_structure_shift"
           /\ "swing_highs" \in DOMAIN Val(call).result) =>
          /\ \A k \in 1..Len(Val(call).result.swing_highs) :
                C25_StrictHigh(Val(call).result.swing_highs[k].index, 5)
          /\ \A k \in 1..Len(Val(call).result.swing_lows) :
                C25_StrictLow(Val(call).result.swing_lows[k].index, 5)

----------------------------------------------------------------------------
(* Claims about the sliding window, checked under SpecBacktest *)

\* a pass of the loop: the analysis has run on current_window at position bt.i
C26_Pass == bt.pc = "scan" /\ bt'.pc = "scan" /\ bt'.i = bt.i + 1

C26_TradesAscending(ts) ==
    \A k \in 1..(Len(ts) - 1) : ts[k].entry_time <= ts[k + 1].entry_time

\* C26: during a backtest the Confluence Engine is run once per bar position
\* in ascending order, each time on a trailing window of exactly 100 bars
\* ending at that position, consecutive windows being advanced by exactly one
\* bar; hence the resulting trade list is in ascending entry-time order.
C26_WindowOfHundred ==
    [][C26_Pass =>
          /\ Len(bt'.current_window) = 100
          /\ bt'.current_window[Len(bt'.current_window)] = At(ohlc_data, bt.i)
          /\ bt.current_window # <<>> =>
                /\ bt'.current_window[1] = bt.current_window[2]
                /\ bt'.current_window[Len(bt'.current_window)].timestamp
                       = bt.current_window[Len(bt.current_window)].timestamp + 1
          /\ C26_TradesAscending(bt'.trades)]_vars

----------------------------------------------------------------------------
(* Claims about the size of a trade's result, checked under SpecBacktest *)

\* a pass of the loop that appended a trade
C27_NewTrade ==
    /\ bt.pc = "scan"
    /\ bt'.pc = "scan"
    /\ Len(bt'.trades) = Len(bt.trades) + 1

\* R: the balance the trade was sized on, times risk_per_trade
C27_Risk == RMul(bt.account_balance, ConfigGet(bt.config, "risk_per_trade", Rat(2, 100)))
C27_Trade == bt'.trades[Len(bt'.trades)]
C27_Pnl == Val(C27_Trade.pnl)

C27_Tolerance(x) == RMul(RAbs(x), PnlStep)

C28_NoSignificanceAtOrBelowChance ==
    (~IsNone(call) /\ trades # <<>> /\ 2 * Len(SelectSeq(trades, IsWin)) <= Len(trades))
        => Val(call).result = Zero

----------------------------------------------------------------------------
(* What a dispatched handler hands back *)

\* _risk_analysis, _configure_alerts and _benchmark_analysis (lines 887-901)
\* have the body `pass`: they return None
StubHandlers == {"_risk_analysis", "_configure_alerts", "_benchmark_analysis"}

\* the value _run returns is a string: a message of _run itself, or the return
\* value of a handler every path of which returns a string
ReturnsString(result) == result.kind = "text" \/ result.handler \notin StubHandlers

\* C29: every action name _get_available_actions lists makes
\* PerformanceAnalyticsTool._run return a string, never a missing value.
C29_AdvertisedActionsReturnText ==
    (/\ ~IsNone(call)
     /\ Val(call).op = "PerformanceAnalyticsTool._run"
     /\ Contains(available_actions, Val(call).name))
        => ReturnsString(Val(call).result)

====
